---------------------------- MODULE Spec2Model ----------------------------
(***************************************************************************)
(* Plate & socket generator: the geometry/validation engine (lib/types.ts) *)
(* and the state of the SocketGenerator component that drives it.          *)
(*                                                                         *)
(* All lengths are integers in tenths of a centimetre, so that the         *)
(* constants 3.5 cm, 0.2 cm and 36.8 cm of the source are exact:           *)
(* 7 cm = 70, 0.2 cm = 2, 3 cm = 30, 4 cm = 40, 3.5 cm = 35, 40 cm = 400.  *)
(* A JavaScript number is an integer of that unit or NaN.                  *)
(***************************************************************************)
EXTENDS Integers, Sequences, FiniteSets, TLC

VARIABLES
    plates,                     \* useState<Plate[]>
    socketGroups,               \* useState<SocketGroup[]>
    socketToggle,               \* useState(false)
    selectedSocketGroup,        \* useState<SocketGroup | null>
    selectedPlate,              \* useState<string>("")
    socketCount,                \* useState(1)
    socketDirection,            \* useState("vertical")
    positionX,                  \* useState("") : the text of the X input, parsed
    positionY,                  \* useState("") : the text of the Y input, parsed
    errorMessage,               \* useState("")
    dragState,                  \* useState<{...} | null>
    isEditingSocket,            \* useState(true)
    isRestoringSocketGroups,    \* useState(false); cleared by a 150 ms timer
    lastSavedPlatesForEditMode, \* useState<Plate[]>
    lsPlates,                   \* localStorage["socket-generator-plates"]
    lsSocketGroups,             \* localStorage["socket-generator-socket-groups"]
    lsIsEditingSocket,          \* localStorage["socket-generator-is-editing-socket"]
    clock,                      \* Date.now(), the source of fresh ids
    steps,                      \* number of events handled so far
    vCall,                      \* arguments of a validateSocketPosition call
    vResult,                    \* the ValidatedPosition it returned
    canvasDimensions,           \* measured size of the canvas, in px
    plateScales,                \* plate id -> px per cm
    canvasZoom,                 \* factor of the CSS transform of the plates
    centeringOffset,            \* px
    shouldCenterPlates,
    dragOffset,                 \* dragState.offset, in px
    dragOrigin,                 \* history: where the dragged group was stored
                                \* when the pointer went down
    pointerDown,                \* history: clientX/clientY of the pointer down
    pointer,                    \* history: clientX/clientY of the last event
    deleted                     \* history: ids handleDeleteSocketGroup removed

appVars == <<plates, socketGroups, socketToggle, selectedSocketGroup,
             selectedPlate, socketCount, socketDirection, positionX,
             positionY, errorMessage, dragState, isEditingSocket,
             isRestoringSocketGroups, lastSavedPlatesForEditMode, lsPlates,
             lsSocketGroups, lsIsEditingSocket, clock, steps>>

valVars == <<vCall, vResult>>

canvasVars == <<canvasDimensions, plateScales, canvasZoom, centeringOffset,
                shouldCenterPlates, dragOffset>>

histVars == <<dragOrigin, pointerDown, pointer, deleted>>

vars == <<appVars, valVars, canvasVars, histVars>>

---------------------------------------------------------------------------
(* Constants of lib/types.ts, in tenths of a centimetre.                   *)

SOCKET_SIZE == 70

SOCKET_GAP == 2

MIN_EDGE_DISTANCE == 30

MIN_GROUP_DISTANCE == 40

MIN_PLATE_SIZE_FOR_SOCKETS == 400

ANCHOR_OFFSET_CM == 35

(* JavaScript's NaN: what parseFloat returns for "" and ".".  Every        *)
(* comparison with NaN is false and every sum with NaN is NaN.             *)
NaN == -1000000

IsNum(a) == a # NaN

NumAdd(a, b) == IF a = NaN \/ b = NaN THEN NaN ELSE a + b

NumSub(a, b) == IF a = NaN \/ b = NaN THEN NaN ELSE a - b

NumLt(a, b) == a # NaN /\ b # NaN /\ a < b

NumGt(a, b) == a # NaN /\ b # NaN /\ a > b

Directions == {"horizontal", "vertical"}

---------------------------------------------------------------------------
(* lib/types.ts                                                            *)

calculateWithTrailingGap(count, direction) ==
    LET totalDimension == count * SOCKET_SIZE + count * SOCKET_GAP
    IN  IF direction = "horizontal"
        THEN [width |-> totalDimension, height |-> SOCKET_SIZE]
        ELSE [height |-> totalDimension, width |-> SOCKET_SIZE]

calculateSocketGroupDimensions(count, direction) ==
    LET totalSocketSpace == count * SOCKET_SIZE
        gaps == (count - 1) * SOCKET_GAP
        totalDimension == totalSocketSpace + gaps
    IN  IF direction = "horizontal"
        THEN [width |-> totalDimension, height |-> SOCKET_SIZE]
        ELSE [height |-> totalDimension, width |-> SOCKET_SIZE]

isPlateLargeEnoughForSockets(plate) ==
    /\ plate.width >= MIN_PLATE_SIZE_FOR_SOCKETS
    /\ plate.height >= MIN_PLATE_SIZE_FOR_SOCKETS

(* A horizontal gap that is measured only when rectangle 2 lies to the     *)
(* right of rectangle 1.                                                   *)
hDistanceRightOnly(r1Left, r1Right, r2Left, r2Right) ==
    IF NumLt(r1Right, r2Left) THEN r2Left - r1Right
    ELSE 0

(* Horizontal gap between rectangle 1 (the candidate) and rectangle 2.     *)
hDistance(r1Left, r1Right, r2Left, r2Right) ==
    IF NumLt(r1Right, r2Left) THEN r2Left - r1Right
    ELSE IF NumLt(r2Right, r1Left) THEN r1Left - r2Right
    ELSE 0

(* A vertical gap measured to the far edge of the lower rectangle.         *)
vDistanceToFarEdge(r1Bottom, r1Top, r2Bottom, r2Top) ==
    IF NumGt(r1Bottom, r2Top) THEN r1Bottom - r2Bottom
    ELSE IF NumGt(r2Bottom, r1Top) THEN r2Top - r1Top
    ELSE 0

(* Vertical gap, bottom-left origin: higher values are above.              *)
vDistance(r1Bottom, r1Top, r2Bottom, r2Top) ==
    IF NumGt(r1Bottom, r2Top) THEN r1Bottom - r2Top
    ELSE IF NumGt(r2Bottom, r1Top) THEN r2Bottom - r1Top
    ELSE 0

(* The square of totalDistance = Math.sqrt(h*h + v*v) between the          *)
(* candidate box of socketGroup at (positionX, positionY) and other's box. *)
totalDistanceSq(socketGroup, posX, posY, other) ==
    LET dims == calculateSocketGroupDimensions(socketGroup.count,
                                               socketGroup.direction)
        odims == calculateSocketGroupDimensions(other.count, other.direction)
        r1Left == NumSub(posX, ANCHOR_OFFSET_CM)
        r1Right == NumAdd(r1Left, dims.width)
        r1Bottom == NumSub(posY, ANCHOR_OFFSET_CM)
        r1Top == NumAdd(r1Bottom, dims.height)
        r2Left == NumSub(other.positionX, ANCHOR_OFFSET_CM)
        r2Right == NumAdd(r2Left, odims.width)
        r2Bottom == NumSub(other.positionY, ANCHOR_OFFSET_CM)
        r2Top == NumAdd(r2Bottom, odims.height)
        h == hDistance(r1Left, r1Right, r2Left, r2Right)
        v == vDistance(r1Bottom, r1Top, r2Bottom, r2Top)
    IN  h * h + v * v

(* A loop that skips only the group itself.                                *)
SkipsOnlySelf(socketGroup, other) ==
    other.id = socketGroup.id

(* The "continue" of the sibling loop: the group itself and the groups of  *)
(* other plates are skipped.                                               *)
SkipsSibling(socketGroup, other) ==
    other.id = socketGroup.id \/ other.plateId # socketGroup.plateId

(* A clearance check that also rejects a distance of exactly 4 cm.         *)
TooCloseAtFour(socketGroup, posX, posY, other) ==
    totalDistanceSq(socketGroup, posX, posY, other)
        <= MIN_GROUP_DISTANCE * MIN_GROUP_DISTANCE

(* totalDistance < MIN_GROUP_DISTANCE, compared on the squares (sqrt is    *)
(* monotone).                                                              *)
TooClose(socketGroup, posX, posY, other) ==
    totalDistanceSq(socketGroup, posX, posY, other)
        < MIN_GROUP_DISTANCE * MIN_GROUP_DISTANCE

(* The for loop over allSocketGroups: the index of the first sibling that  *)
(* makes the function return an error, 0 when the loop runs to its end.    *)
RECURSIVE FirstTooClose(_, _, _, _, _)
FirstTooClose(socketGroup, posX, posY, allSocketGroups, i) ==
    IF i > Len(allSocketGroups) THEN 0
    ELSE IF SkipsSibling(socketGroup, allSocketGroups[i])
         THEN FirstTooClose(socketGroup, posX, posY, allSocketGroups, i + 1)
    ELSE IF TooClose(socketGroup, posX, posY, allSocketGroups[i]) THEN i
    ELSE FirstTooClose(socketGroup, posX, posY, allSocketGroups, i + 1)

ErrLeft == "Steckdosengruppe zu nah am linken Rand"

ErrBottom == "Steckdosengruppe zu nah am unteren Rand"

ErrRight == "Steckdosengruppe ueberschreitet die Rueckwandbreite"

ErrTop == "Steckdosengruppe ueberschreitet die Rueckwandhoehe"

ErrGroup == "Steckdosengruppen muessen mindestens 4 cm voneinander entfernt sein"

(* Number.prototype.toFixed(1) of a value held in tenths; "NaN" for NaN.   *)
toFixed(v) ==
    IF v = NaN THEN "NaN"
    ELSE IF v < 0
         THEN "-" \o ToString((0 - v) \div 10) \o "." \o ToString((0 - v) % 10)
    ELSE ToString(v \div 10) \o "." \o ToString(v % 10)

(* Math.sqrt of a square held in tenths^2, to the nearest tenth as         *)
(* toFixed(1) prints it; only distances below MIN_GROUP_DISTANCE are       *)
(* printed.                                                                *)
totalDistance(sq) ==
    CHOOSE k \in 0..MIN_GROUP_DISTANCE :
        /\ k = 0 \/ (2 * k - 1) * (2 * k - 1) <= 4 * sq
        /\ 4 * sq < (2 * k + 1) * (2 * k + 1)

(* The values the template string of the clearance error interpolates.     *)
GroupErrorValues(socketGroup, posX, posY, other) ==
    << ToString(MIN_GROUP_DISTANCE \div 10),
       toFixed(totalDistance(totalDistanceSq(socketGroup, posX, posY, other))),
       ToString(MIN_GROUP_DISTANCE \div 10) >>

(* The values the template strings of the edge errors interpolate: the     *)
(* allowed anchor position, the plate size, the group size and             *)
(* MIN_EDGE_DISTANCE.                                                      *)
EdgeErrorValues(allowedPosition, plateSize, groupSize) ==
    << toFixed(allowedPosition), toFixed(plateSize), toFixed(groupSize),
       ToString(MIN_EDGE_DISTANCE \div 10) >>

(* A failure: error is the fixed head of the message, values are the       *)
(* interpolated parts in the order of the template.                        *)
Invalid(msg, values, posX, posY) ==
    [valid |-> FALSE, error |-> msg, values |-> values, positionX |-> posX,
     positionY |-> posY]

(* A validator that runs the sibling loop before the edge checks.          *)
validateGroupsFirst(socketGroup, posX, posY, plate, allSocketGroups) ==
    LET dims == calculateSocketGroupDimensions(socketGroup.count,
                                               socketGroup.direction)
        groupLeftX == NumSub(posX, ANCHOR_OFFSET_CM)
        groupBottomY == NumSub(posY, ANCHOR_OFFSET_CM)
        groupRightX == NumAdd(groupLeftX, dims.width)
        groupTopY == NumAdd(groupBottomY, dims.height)
        tooClose == FirstTooClose(socketGroup, posX, posY, allSocketGroups, 1)
    IN  IF tooClose # 0
            THEN Invalid(ErrGroup,
                         GroupErrorValues(socketGroup, posX, posY,
                                          allSocketGroups[tooClose]),
                         posX, posY)
        ELSE IF NumLt(groupLeftX, MIN_EDGE_DISTANCE)
            THEN Invalid(ErrLeft,
                         EdgeErrorValues(MIN_EDGE_DISTANCE + ANCHOR_OFFSET_CM,
                                         plate.width, dims.width),
                         posX, posY)
        ELSE IF NumLt(groupBottomY, MIN_EDGE_DISTANCE)
            THEN Invalid(ErrBottom,
                         EdgeErrorValues(MIN_EDGE_DISTANCE + ANCHOR_OFFSET_CM,
                                         plate.height, dims.height),
                         posX, posY)
        ELSE IF NumGt(groupRightX, plate.width - MIN_EDGE_DISTANCE)
            THEN Invalid(ErrRight,
                         EdgeErrorValues(plate.width - MIN_EDGE_DISTANCE
                                           - dims.width + ANCHOR_OFFSET_CM,
                                         plate.width, dims.width),
                         posX, posY)
        ELSE IF NumGt(groupTopY, plate.height - MIN_EDGE_DISTANCE)
            THEN Invalid(ErrTop,
                         EdgeErrorValues(plate.height - MIN_EDGE_DISTANCE
                                           - dims.height + ANCHOR_OFFSET_CM,
                                         plate.height, dims.height),
                         posX, posY)
        ELSE [valid |-> TRUE, error |-> "", values |-> << >>,
              positionX |-> posX,
              positionY |-> posY]

validateSocketPosition(socketGroup, posX, posY, plate, allSocketGroups) ==
    LET dims == calculateSocketGroupDimensions(socketGroup.count,
                                               socketGroup.direction)
        groupLeftX == NumSub(posX, ANCHOR_OFFSET_CM)
        groupBottomY == NumSub(posY, ANCHOR_OFFSET_CM)
        groupRightX == NumAdd(groupLeftX, dims.width)
        groupTopY == NumAdd(groupBottomY, dims.height)
        tooClose == FirstTooClose(socketGroup, posX, posY, allSocketGroups, 1)
    IN  IF NumLt(groupLeftX, MIN_EDGE_DISTANCE)
            THEN Invalid(ErrLeft,
                         EdgeErrorValues(MIN_EDGE_DISTANCE + ANCHOR_OFFSET_CM,
                                         plate.width, dims.width),
                         posX, posY)
        ELSE IF NumLt(groupBottomY, MIN_EDGE_DISTANCE)
            THEN Invalid(ErrBottom,
                         EdgeErrorValues(MIN_EDGE_DISTANCE + ANCHOR_OFFSET_CM,
                                         plate.height, dims.height),
                         posX, posY)
        ELSE IF NumGt(groupRightX, plate.width - MIN_EDGE_DISTANCE)
            THEN Invalid(ErrRight,
                         EdgeErrorValues(plate.width - MIN_EDGE_DISTANCE
                                           - dims.width + ANCHOR_OFFSET_CM,
                                         plate.width, dims.width),
                         posX, posY)
        ELSE IF NumGt(groupTopY, plate.height - MIN_EDGE_DISTANCE)
            THEN Invalid(ErrTop,
                         EdgeErrorValues(plate.height - MIN_EDGE_DISTANCE
                                           - dims.height + ANCHOR_OFFSET_CM,
                                         plate.height, dims.height),
                         posX, posY)
        ELSE IF tooClose # 0
            THEN Invalid(ErrGroup,
                         GroupErrorValues(socketGroup, posX, posY,
                                          allSocketGroups[tooClose]),
                         posX, posY)
        ELSE [valid |-> TRUE, error |-> "", values |-> << >>,
              positionX |-> posX,
              positionY |-> posY]


---------------------------------------------------------------------------
(* lib/utils.ts                                                            *)

clampFromBelow(value, min, max) ==
    IF value > min THEN value ELSE min

clamp(value, min, max) ==
    LET lower == IF value > min THEN value ELSE min     \* Math.max(value, min)
    IN  IF lower < max THEN lower ELSE max              \* Math.min(.., max)

---------------------------------------------------------------------------
(* The SocketGenerator component: values of its state.                     *)

(* An argument that is not passed (undefined), a field not yet set.        *)
Undefined == -2000000

DEFAULT_PLATES ==
    << [id |-> "1", width |-> 1515, height |-> 368],
       [id |-> "2", width |-> 2000, height |-> 1000] >>

(* selectedSocketGroup = null *)
NoSocketGroup ==
    [id |-> "", plateId |-> "", count |-> 0, direction |-> "vertical",
     positionX |-> 0, positionY |-> 0]

(* dragState = null *)
NoDrag ==
    [isDragging |-> FALSE, socketGroupId |-> "",
     liveDistanceX |-> Undefined, liveDistanceY |-> Undefined]

(* localStorage.getItem(...) = null *)
NoItem == [present |-> FALSE, value |-> << >>]

Item(v) == [present |-> TRUE, value |-> v]

ErrSelectPlate == "Please select a plate"

ErrPlateTooSmall == "Plate must be at least 40x40cm"

(* array.findIndex(x => x.id === id) + 1: 0 when there is none *)
IndexOfId(seq, id) ==
    IF \E i \in 1..Len(seq) : seq[i].id = id
    THEN CHOOSE i \in 1..Len(seq) :
            /\ seq[i].id = id
            /\ \A j \in 1..(i - 1) : seq[j].id # id
    ELSE 0

HasId(seq, id) == IndexOfId(seq, id) # 0

(* plates.find(isPlateLargeEnoughForSockets): its index, 0 when none *)
FirstValidPlate(ps) ==
    IF \E i \in 1..Len(ps) : isPlateLargeEnoughForSockets(ps[i])
    THEN CHOOSE i \in 1..Len(ps) :
            /\ isPlateLargeEnoughForSockets(ps[i])
            /\ \A j \in 1..(i - 1) : ~isPlateLargeEnoughForSockets(ps[j])
    ELSE 0

(* plates.find(isPlateLargeEnoughForSockets)?.id || "" *)
FirstValidPlateId(ps) ==
    IF FirstValidPlate(ps) = 0 THEN "" ELSE ps[FirstValidPlate(ps)].id

(* prev.filter((sg) => sg.plateId !== plateId) *)
WithoutPlate(groups, plateId) ==
    LET Keep(sg) == sg.plateId # plateId IN SelectSeq(groups, Keep)

(* prev.filter((x) => x.id !== id) *)
WithoutId(seq, id) ==
    LET Keep(x) == x.id # id IN SelectSeq(seq, Keep)

(* The state of one render: every useState value, localStorage, the clock, *)
(* and the dependencies whose change makes effects run after the render.   *)
Cur ==
    [plates |-> plates, socketGroups |-> socketGroups,
     socketToggle |-> socketToggle,
     selectedSocketGroup |-> selectedSocketGroup,
     selectedPlate |-> selectedPlate, socketCount |-> socketCount,
     socketDirection |-> socketDirection, positionX |-> positionX,
     positionY |-> positionY, errorMessage |-> errorMessage,
     dragState |-> dragState, isEditingSocket |-> isEditingSocket,
     isRestoringSocketGroups |-> isRestoringSocketGroups,
     lastSavedPlatesForEditMode |-> lastSavedPlatesForEditMode,
     lsPlates |-> lsPlates, lsSocketGroups |-> lsSocketGroups,
     lsIsEditingSocket |-> lsIsEditingSocket, clock |-> clock,
     dirty |-> {}]

(* A setter called with a new array: the dependency changes by reference.  *)
Mark(s, names) == [s EXCEPT !.dirty = @ \cup names]

(* Primitive state is compared by value when React decides what changed.   *)
PrimitiveDeps == {"socketToggle", "isEditingSocket", "isRestoringSocketGroups"}

Rendered(before, after) ==
    Mark(after, {f \in PrimitiveDeps : after[f] # before[f]})


---------------------------------------------------------------------------
(* The effects.  r is the render whose effects run (r.dirty names the      *)
(* dependencies that changed); n collects the localStorage writes, which   *)
(* later effects of the same pass read, and the state set for the next     *)
(* render.                                                                 *)

(* Auto-save plates: deps [plates, hasLoadedFromStorage].                  *)
AutoSavePlates(r, n) ==
    IF "plates" \notin r.dirty THEN n
    ELSE LET matchesDefaults == r.plates = DEFAULT_PLATES
             savedDiffers == n.lsPlates.present
                             /\ n.lsPlates.value # DEFAULT_PLATES
         IN  IF matchesDefaults /\ savedDiffers THEN n
             ELSE [n EXCEPT !.lsPlates = Item(r.plates)]

(* Auto-save socket groups: deps [socketGroups, hasLoadedFromStorage,      *)
(* socketToggle, isRestoringSocketGroups].                                 *)
AutoSaveSocketGroups(r, n) ==
    IF r.dirty \cap {"socketGroups", "socketToggle",
                     "isRestoringSocketGroups"} = {} THEN n
    ELSE IF ~r.socketToggle THEN n
    ELSE IF r.isRestoringSocketGroups THEN n
    ELSE IF Len(r.socketGroups) = 0 /\ n.lsSocketGroups.present THEN n
    ELSE [n EXCEPT !.lsSocketGroups = Item(r.socketGroups)]

(* Auto-save isEditingSocket: deps [isEditingSocket, hasLoadedFromStorage] *)
AutoSaveIsEditingSocket(r, n) ==
    IF "isEditingSocket" \notin r.dirty THEN n
    ELSE [n EXCEPT !.lsIsEditingSocket = r.isEditingSocket]

(* plates differ from a saved list: another length, or a plate whose id is *)
(* not saved or is saved with other dimensions.                            *)
PlatesDifferFrom(ps, saved) ==
    \/ Len(ps) # Len(saved)
    \/ \E i \in 1..Len(ps) :
          \/ ~HasId(saved, ps[i].id)
          \/ saved[IndexOfId(saved, ps[i].id)].width # ps[i].width
          \/ saved[IndexOfId(saved, ps[i].id)].height # ps[i].height

havePlatesChanged(ps, savedItem) ==
    IF ~savedItem.present THEN TRUE
    ELSE PlatesDifferFrom(ps, savedItem.value)

(* Monitor plate changes: deps [plates, socketToggle, isEditingSocket,     *)
(* lastSavedPlatesForEditMode, hasLoadedFromStorage].                      *)
MonitorPlateChanges(r, n) ==
    IF r.dirty \cap {"plates", "socketToggle", "isEditingSocket",
                     "lastSavedPlatesForEditMode"} = {} THEN n
    ELSE IF ~r.socketToggle \/ r.isEditingSocket
            \/ Len(r.lastSavedPlatesForEditMode) = 0 THEN n
    ELSE LET platesChanged ==
                \/ PlatesDifferFrom(r.plates, r.lastSavedPlatesForEditMode)
                \/ \E i \in 1..Len(r.lastSavedPlatesForEditMode) :
                      ~HasId(r.plates, r.lastSavedPlatesForEditMode[i].id)
         IN  IF ~platesChanged THEN n
             ELSE Mark([n EXCEPT !.isEditingSocket = TRUE,
                                 !.lsIsEditingSocket = TRUE,
                                 !.lastSavedPlatesForEditMode = r.plates],
                       {"lastSavedPlatesForEditMode"})

(* The default socket group of the toggle effect.                          *)
DefaultSocketGroup(id, plateId) ==
    [id |-> id, plateId |-> plateId, count |-> 1, direction |-> "vertical",
     positionX |-> MIN_EDGE_DISTANCE, positionY |-> MIN_EDGE_DISTANCE]

(* Toggle ON: restore the saved socket groups, decide the editing mode,    *)
(* and add the default group when none was restored.                       *)
SocketToggleOn(r, n) ==
    LET saved == n.lsSocketGroups
        restoredSocketGroups ==
            IF saved.present /\ Len(saved.value) > 0 THEN saved.value
            ELSE << >>
        n1 == [n EXCEPT !.isRestoringSocketGroups = TRUE]
        n2 == IF Len(restoredSocketGroups) > 0
              THEN Mark([n1 EXCEPT !.socketGroups = restoredSocketGroups],
                        {"socketGroups"})
              ELSE n1
        platesChanged == havePlatesChanged(r.plates, n.lsPlates)
        n3 == IF platesChanged \/ ~r.isEditingSocket
              THEN [n2 EXCEPT !.isEditingSocket =
                        IF platesChanged THEN TRUE ELSE n.lsIsEditingSocket]
              ELSE n2
        n4 == Mark([n3 EXCEPT !.lastSavedPlatesForEditMode = r.plates],
                   {"lastSavedPlatesForEditMode"})
        shouldBeEditing ==
            IF platesChanged THEN TRUE ELSE n.lsIsEditingSocket
        first == FirstValidPlate(r.plates)
    IN  IF shouldBeEditing /\ Len(restoredSocketGroups) = 0 /\ first # 0
        THEN Mark([n4 EXCEPT
                     !.socketGroups =
                        << DefaultSocketGroup(ToString(n.clock),
                                              r.plates[first].id) >>,
                     !.clock = n.clock + 1,
                     !.selectedPlate = r.plates[first].id,
                     !.socketCount = 1,
                     !.socketDirection = "vertical",
                     !.positionX = MIN_EDGE_DISTANCE,
                     !.positionY = MIN_EDGE_DISTANCE],
                  {"socketGroups"})
        ELSE n4

(* Toggle OFF: save the groups, then clear them and the selection.         *)
SocketToggleOff(r, n) ==
    IF Len(r.socketGroups) > 0
    THEN Mark([n EXCEPT !.lsSocketGroups = Item(r.socketGroups),
                        !.socketGroups = << >>,
                        !.selectedSocketGroup = NoSocketGroup,
                        !.selectedPlate = "",
                        !.errorMessage = ""],
              {"socketGroups"})
    ELSE n

(* Socket toggle effect: deps [socketToggle, plates, havePlatesChanged].   *)
SocketToggleEffect(r, n) ==
    IF r.dirty \cap {"socketToggle", "plates"} = {} THEN n
    ELSE IF r.socketToggle THEN SocketToggleOn(r, n)
    ELSE SocketToggleOff(r, n)

(* One render and the effects after it, in the order of their definition.  *)
EffectPass(r) ==
    LET n0 == [r EXCEPT !.dirty = {}]
        n1 == AutoSavePlates(r, n0)
        n2 == AutoSaveSocketGroups(r, n1)
        n3 == AutoSaveIsEditingSocket(r, n2)
        n4 == MonitorPlateChanges(r, n3)
        n5 == SocketToggleEffect(r, n4)
    IN  Rendered(r, n5)

(* Render and run effects until no dependency changes any more.            *)
RECURSIVE Settle(_)
Settle(r) == IF r.dirty = {} THEN r ELSE Settle(EffectPass(r))

(* What an event handler leaves, once React has rendered it.               *)
AfterHandler(n) == Settle(Rendered(Cur, n))

Commit(s) ==
    /\ plates' = s.plates
    /\ socketGroups' = s.socketGroups
    /\ socketToggle' = s.socketToggle
    /\ selectedSocketGroup' = s.selectedSocketGroup
    /\ selectedPlate' = s.selectedPlate
    /\ socketCount' = s.socketCount
    /\ socketDirection' = s.socketDirection
    /\ positionX' = s.positionX
    /\ positionY' = s.positionY
    /\ errorMessage' = s.errorMessage
    /\ dragState' = s.dragState
    /\ isEditingSocket' = s.isEditingSocket
    /\ isRestoringSocketGroups' = s.isRestoringSocketGroups
    /\ lastSavedPlatesForEditMode' = s.lastSavedPlatesForEditMode
    /\ lsPlates' = s.lsPlates
    /\ lsSocketGroups' = s.lsSocketGroups
    /\ lsIsEditingSocket' = s.lsIsEditingSocket
    /\ clock' = s.clock


---------------------------------------------------------------------------
(* The event handlers, as functions of the state s of the render they were *)
(* created in.                                                             *)

updatePlate(s, plateId, width, height) ==
    LET Resized(plate) ==
            IF plate.id = plateId
            THEN [plate EXCEPT
                    !.width = IF width # Undefined
                              THEN clamp(width, 200, 3000) ELSE @,
                    !.height = IF height # Undefined
                               THEN clamp(height, 300, 1280) ELSE @]
            ELSE plate
        n1 == Mark([s EXCEPT !.plates =
                        [i \in 1..Len(s.plates) |-> Resized(s.plates[i])]],
                   {"plates"})
    IN  IF width # Undefined \/ height # Undefined
        THEN Mark([n1 EXCEPT !.socketGroups =
                        WithoutPlate(s.socketGroups, plateId)],
                  {"socketGroups"})
        ELSE n1

addPlate(s) ==
    LET newPlate == [id |-> ToString(s.clock), width |-> 1515,
                     height |-> 368]
    IN  Mark([s EXCEPT !.plates = Append(@, newPlate),
                       !.clock = @ + 1],
             {"plates"})

deletePlate(s, plateId) ==
    IF Len(s.plates) > 1
    THEN Mark([s EXCEPT !.plates = WithoutId(@, plateId),
                        !.socketGroups = WithoutPlate(@, plateId)],
              {"plates", "socketGroups"})
    ELSE s

handleSocketGroupSelection(s, groupId) ==
    IF HasId(s.socketGroups, groupId)
    THEN LET group == s.socketGroups[IndexOfId(s.socketGroups, groupId)]
         IN  [s EXCEPT !.selectedSocketGroup = group,
                       !.selectedPlate = group.plateId,
                       !.socketCount = group.count,
                       !.socketDirection = group.direction,
                       !.positionX = group.positionX,
                       !.positionY = group.positionY,
                       !.isEditingSocket = TRUE]
    ELSE s

handleSocketGroupView(s, groupId) ==
    IF HasId(s.socketGroups, groupId)
    THEN LET group == s.socketGroups[IndexOfId(s.socketGroups, groupId)]
         IN  [s EXCEPT !.selectedSocketGroup = group,
                       !.selectedPlate = group.plateId]
    ELSE s

handleAddSocketGroup(s) ==
    Mark([s EXCEPT !.selectedSocketGroup = NoSocketGroup,
                   !.selectedPlate = FirstValidPlateId(s.plates),
                   !.socketCount = 1,
                   !.socketDirection = "vertical",
                   !.positionX = MIN_EDGE_DISTANCE,
                   !.positionY = MIN_EDGE_DISTANCE,
                   !.errorMessage = "",
                   !.isEditingSocket = FALSE,
                   !.lastSavedPlatesForEditMode = s.plates],
         {"lastSavedPlatesForEditMode"})

(* A confirm that stores the group without asking the validator.           *)
handleConfirmUnvalidated(s) ==
    IF s.selectedPlate = "" THEN [s EXCEPT !.errorMessage = ErrSelectPlate]
    ELSE IF \/ ~HasId(s.plates, s.selectedPlate)
            \/ ~isPlateLargeEnoughForSockets(
                    s.plates[IndexOfId(s.plates, s.selectedPlate)])
         THEN [s EXCEPT !.errorMessage = ErrPlateTooSmall]
    ELSE
    LET isUpdate == s.selectedSocketGroup # NoSocketGroup
        socketGroup ==
            [id |-> IF isUpdate THEN s.selectedSocketGroup.id
                    ELSE ToString(s.clock),
             plateId |-> s.selectedPlate,
             count |-> s.socketCount,
             direction |-> s.socketDirection,
             positionX |-> s.positionX,
             positionY |-> s.positionY]
        Replaced(sg) == IF sg.id = s.selectedSocketGroup.id
                        THEN socketGroup ELSE sg
    IN  Mark([s EXCEPT
                !.socketGroups =
                   IF isUpdate
                   THEN [i \in 1..Len(@) |-> Replaced(@[i])]
                   ELSE Append(@, socketGroup),
                !.clock = IF isUpdate THEN @ ELSE @ + 1,
                !.errorMessage = "",
                !.selectedSocketGroup = NoSocketGroup,
                !.socketCount = 1,
                !.socketDirection = "vertical",
                !.positionX = MIN_EDGE_DISTANCE,
                !.positionY = MIN_EDGE_DISTANCE,
                !.isEditingSocket = TRUE],
             {"socketGroups"})

handleConfirmSocketGroup(s) ==
    IF s.selectedPlate = "" THEN [s EXCEPT !.errorMessage = ErrSelectPlate]
    ELSE IF \/ ~HasId(s.plates, s.selectedPlate)
            \/ ~isPlateLargeEnoughForSockets(
                    s.plates[IndexOfId(s.plates, s.selectedPlate)])
         THEN [s EXCEPT !.errorMessage = ErrPlateTooSmall]
    ELSE
    LET plate == s.plates[IndexOfId(s.plates, s.selectedPlate)]
        posX == s.positionX
        posY == s.positionY
        isUpdate == s.selectedSocketGroup # NoSocketGroup
        socketGroup ==
            [id |-> IF isUpdate THEN s.selectedSocketGroup.id
                    ELSE ToString(s.clock),
             plateId |-> s.selectedPlate,
             count |-> s.socketCount,
             direction |-> s.socketDirection,
             positionX |-> posX,
             positionY |-> posY]
        validation == validateSocketPosition(socketGroup, posX, posY, plate,
                                             s.socketGroups)
        Replaced(sg) == IF sg.id = s.selectedSocketGroup.id
                        THEN socketGroup ELSE sg
    IN  IF ~validation.valid
        THEN [s EXCEPT !.errorMessage = validation.error]
        ELSE Mark([s EXCEPT
                     !.socketGroups =
                        IF isUpdate
                        THEN [i \in 1..Len(@) |-> Replaced(@[i])]
                        ELSE Append(@, socketGroup),
                     !.clock = IF isUpdate THEN @ ELSE @ + 1,
                     !.errorMessage = "",
                     !.selectedSocketGroup = NoSocketGroup,
                     !.selectedPlate = plate.id,
                     !.socketCount = 1,
                     !.socketDirection = "vertical",
                     !.positionX = MIN_EDGE_DISTANCE,
                     !.positionY = MIN_EDGE_DISTANCE,
                     !.isEditingSocket = TRUE],
                  {"socketGroups"})

handleDeleteSocketGroup(s, groupId) ==
    Mark([s EXCEPT !.socketGroups = WithoutId(@, groupId),
                   !.selectedSocketGroup =
                        IF @.id = groupId THEN NoSocketGroup ELSE @],
         {"socketGroups"})

handleSocketMouseDown(s, socketGroup) ==
    IF ~HasId(s.plates, socketGroup.plateId) THEN s
    ELSE [s EXCEPT !.dragState =
            [isDragging |-> TRUE, socketGroupId |-> socketGroup.id,
             liveDistanceX |-> Undefined, liveDistanceY |-> Undefined]]

(* A move that stores the candidate before it knows the verdict.           *)
handleSocketMouseMoveEager(s, plateX, plateY) ==
    IF s.dragState = NoDrag THEN s
    ELSE IF ~HasId(s.socketGroups, s.dragState.socketGroupId) THEN s
    ELSE
    LET socketGroup ==
            s.socketGroups[IndexOfId(s.socketGroups,
                                     s.dragState.socketGroupId)]
    IN  IF ~HasId(s.plates, socketGroup.plateId) THEN s
        ELSE
        LET plate == s.plates[IndexOfId(s.plates, socketGroup.plateId)]
            validation == validateSocketPosition(socketGroup, plateX, plateY,
                                                 plate, s.socketGroups)
            Moved(sg) == IF sg.id = socketGroup.id
                         THEN [socketGroup EXCEPT !.positionX = plateX,
                                                  !.positionY = plateY]
                         ELSE sg
        IN  Mark([s EXCEPT
                    !.dragState.liveDistanceX = plateX,
                    !.dragState.liveDistanceY = plateY,
                    !.socketGroups = [i \in 1..Len(@) |-> Moved(@[i])],
                    !.errorMessage = validation.error],
                 {"socketGroups"})

(* A move that forgets to clear the error of an earlier rejected move.     *)
handleSocketMouseMoveStaleError(s, plateX, plateY) ==
    IF s.dragState = NoDrag THEN s
    ELSE IF ~HasId(s.socketGroups, s.dragState.socketGroupId) THEN s
    ELSE
    LET socketGroup ==
            s.socketGroups[IndexOfId(s.socketGroups,
                                     s.dragState.socketGroupId)]
    IN  IF ~HasId(s.plates, socketGroup.plateId) THEN s
        ELSE
        LET plate == s.plates[IndexOfId(s.plates, socketGroup.plateId)]
            n1 == [s EXCEPT !.dragState.liveDistanceX = plateX,
                            !.dragState.liveDistanceY = plateY]
            validation == validateSocketPosition(socketGroup, plateX, plateY,
                                                 plate, s.socketGroups)
            Moved(sg) == IF sg.id = socketGroup.id
                         THEN [socketGroup EXCEPT !.positionX = plateX,
                                                  !.positionY = plateY]
                         ELSE sg
        IN  IF validation.valid
            THEN Mark([n1 EXCEPT
                         !.socketGroups = [i \in 1..Len(@) |-> Moved(@[i])]],
                      {"socketGroups"})
            ELSE [n1 EXCEPT !.errorMessage = validation.error]

(* plateX, plateY: the anchor the pointer position maps to.                *)
handleSocketMouseMove(s, plateX, plateY) ==
    IF s.dragState = NoDrag THEN s
    ELSE IF ~HasId(s.socketGroups, s.dragState.socketGroupId) THEN s
    ELSE
    LET socketGroup ==
            s.socketGroups[IndexOfId(s.socketGroups,
                                     s.dragState.socketGroupId)]
    IN  IF ~HasId(s.plates, socketGroup.plateId) THEN s
        ELSE
        LET plate == s.plates[IndexOfId(s.plates, socketGroup.plateId)]
            n1 == [s EXCEPT !.dragState.liveDistanceX = plateX,
                            !.dragState.liveDistanceY = plateY]
            validation == validateSocketPosition(socketGroup, plateX, plateY,
                                                 plate, s.socketGroups)
            Moved(sg) == IF sg.id = socketGroup.id
                         THEN [socketGroup EXCEPT !.positionX = plateX,
                                                  !.positionY = plateY]
                         ELSE sg
        IN  IF validation.valid
            THEN Mark([n1 EXCEPT
                         !.socketGroups = [i \in 1..Len(@) |-> Moved(@[i])],
                         !.errorMessage = ""],
                      {"socketGroups"})
            ELSE [n1 EXCEPT !.errorMessage = validation.error]

(* A release that ends the drag and leaves the error message.              *)
handleSocketMouseUpKeepsError(s) ==
    IF s.dragState # NoDrag
    THEN [s EXCEPT !.dragState = NoDrag]
    ELSE s

handleSocketMouseUp(s) ==
    IF s.dragState # NoDrag
    THEN [s EXCEPT !.dragState = NoDrag, !.errorMessage = ""]
    ELSE s


---------------------------------------------------------------------------
(* JavaScript numbers that are not whole: exact fractions n/d with d > 0,  *)
(* in lowest terms.  Pixels and the scale (px per cm) are such numbers.    *)

Abs(x) == IF x < 0 THEN -x ELSE x

RECURSIVE GCD(_, _)
GCD(a, b) == IF b = 0 THEN a ELSE GCD(b, a % b)

Rat(n, d) ==
    LET g == GCD(Abs(n), Abs(d))
        sign == IF d < 0 THEN -1 ELSE 1
    IN  [n |-> (sign * n) \div g, d |-> (sign * d) \div g]

Whole(i) == [n |-> i, d |-> 1]

(* A length of the model (tenths of a cm) as a number of cm.               *)
Cm(tenths) == Rat(tenths, 10)

RatAdd(a, b) == Rat(a.n * b.d + b.n * a.d, a.d * b.d)

RatSub(a, b) == Rat(a.n * b.d - b.n * a.d, a.d * b.d)

RatMul(a, b) == Rat(a.n * b.n, a.d * b.d)

RatDiv(a, b) == Rat(a.n * b.d, a.d * b.n)

RatLt(a, b) == a.n * b.d < b.n * a.d

RatMin(a, b) == IF RatLt(b, a) THEN b ELSE a

RatMax(a, b) == IF RatLt(a, b) THEN b ELSE a

IsWhole(a) == a.d = 1

---------------------------------------------------------------------------
(* The plate scaling effect.                                               *)

NoDimensions == [width |-> 0, height |-> 0]

NoScales == [id \in {} |-> Whole(0)]

isSinglePlateMode(group, plateId) == group # NoSocketGroup \/ plateId # ""

isMobile(dimensions) == dimensions.width < 640

padding(dimensions) == IF isMobile(dimensions) THEN 20 ELSE 80

maxCanvasWidth(dimensions) == dimensions.width - padding(dimensions) * 2

maxCanvasHeight(dimensions) == dimensions.height - padding(dimensions) * 2

RECURSIVE totalRealWidth(_)
totalRealWidth(ps) ==
    IF ps = << >> THEN 0 ELSE Head(ps).width + totalRealWidth(Tail(ps))

maxPlateHeight(ps) ==
    CHOOSE h \in {ps[i].height : i \in 1..Len(ps)} :
        \A i \in 1..Len(ps) : ps[i].height <= h

scaleToFitUncapped(dimensions, width, height, cap) ==
    RatMin(Rat(maxCanvasWidth(dimensions) * 10, width),
           Rat(maxCanvasHeight(dimensions) * 10, height))

(* Math.min(scaleByWidth, scaleByHeight, cap) for a content of the size    *)
(* width x height (tenths of a cm).                                        *)
scaleToFit(dimensions, width, height, cap) ==
    LET scaleByWidth == Rat(maxCanvasWidth(dimensions) * 10, width)
        scaleByHeight == Rat(maxCanvasHeight(dimensions) * 10, height)
    IN  RatMin(RatMin(scaleByWidth, scaleByHeight), Whole(cap))

cappedScaleOfAll(dimensions, ps, group, plateId) ==
    scaleToFit(dimensions, totalRealWidth(ps), maxPlateHeight(ps), 1)

(* finalScale before the minimum is applied.                               *)
cappedScale(dimensions, ps, group, plateId) ==
    LET focus == IF group # NoSocketGroup THEN group.plateId ELSE plateId
    IN  IF isSinglePlateMode(group, plateId) /\ HasId(ps, focus)
        THEN LET plateToScale == ps[IndexOfId(ps, focus)]
             IN  scaleToFit(dimensions, plateToScale.width,
                            plateToScale.height, 2)
        ELSE scaleToFit(dimensions, totalRealWidth(ps), maxPlateHeight(ps), 1)

minScaleLowerOnMobile(dimensions) ==
    IF isMobile(dimensions) THEN Rat(2, 10) ELSE Rat(3, 10)

minScale(dimensions) ==
    IF isMobile(dimensions) THEN Rat(3, 10) ELSE Rat(2, 10)

finalScale(dimensions, ps, group, plateId) ==
    RatMax(minScale(dimensions), cappedScale(dimensions, ps, group, plateId))

gapOf(dimensions) == IF isMobile(dimensions) THEN 16 ELSE 24

PlateScalingEachToFit(dimensions, ps, group, plateId, old) ==
    IF dimensions.width = 0 \/ Len(ps) = 0 THEN old
    ELSE [plateScales |->
              [id \in {ps[i].id : i \in 1..Len(ps)} |->
                  finalScale(dimensions, ps, NoSocketGroup, id)],
          centeringOffset |-> Whole(0), shouldCenterPlates |-> FALSE]

(* The effect as a whole: what it leaves in plateScales, centeringOffset   *)
(* and shouldCenterPlates; old is what they held before.                   *)
PlateScaling(dimensions, ps, group, plateId, old) ==
    IF dimensions.width = 0 \/ Len(ps) = 0 THEN old
    ELSE LET scale == finalScale(dimensions, ps, group, plateId)
             scales == [id \in {ps[i].id : i \in 1..Len(ps)} |-> scale]
             totalContentWidth ==
                 RatAdd(RatMul(Cm(totalRealWidth(ps)), scale),
                        Whole((Len(ps) - 1) * gapOf(dimensions)
                              + padding(dimensions) * 2))
             viewportWidth == Whole(dimensions.width)
         IN  IF ~isSinglePlateMode(group, plateId)
                /\ RatLt(totalContentWidth, viewportWidth)
             THEN [plateScales |-> scales,
                   centeringOffset |->
                       RatDiv(RatSub(viewportWidth, totalContentWidth),
                              Whole(2)),
                   shouldCenterPlates |-> TRUE]
             ELSE [plateScales |-> scales, centeringOffset |-> Whole(0),
                   shouldCenterPlates |-> FALSE]

(* plateScales[id] || 0                                                    *)
ScaleOf(scales, id) == IF id \in DOMAIN scales THEN scales[id] ELSE Whole(0)

---------------------------------------------------------------------------
(* The drag coordinate mapper.  c is the canvas as the handlers see it:    *)
(* rect, plates, plateScales, selectedSocketGroup, selectedPlate,          *)
(* centeringOffset and shouldCenterPlates.  Pixels are fractions.          *)

getSocketGroupPosition(socketGroup, plate, scales) ==
    LET scale == ScaleOf(scales, plate.id)
        firstSocketLeft == Cm(socketGroup.positionX - ANCHOR_OFFSET_CM)
        firstSocketBottom == Cm(socketGroup.positionY + ANCHOR_OFFSET_CM)
    IN  [x |-> RatMul(firstSocketLeft, scale),
         y |-> RatMul(firstSocketBottom, scale)]

(* The widths of the plates in front of the plate, and the gaps the loop   *)
(* adds for them: one for every plate but the first of the list.           *)
RECURSIVE widthsBefore(_, _, _, _, _)
widthsBefore(ps, i, plateId, scales, gap) ==
    IF i > Len(ps) \/ ps[i].id = plateId THEN Whole(0)
    ELSE RatAdd(RatAdd(RatMul(Cm(ps[i].width), ScaleOf(scales, ps[i].id)),
                       Whole(IF i > 1 THEN gap ELSE 0)),
                widthsBefore(ps, i + 1, plateId, scales, gap))

plateOffset(c, plate) ==
    LET scale == ScaleOf(c.plateScales, plate.id)
        pad == IF c.rect.width < 640 THEN 20 ELSE 40
        gap == IF c.rect.width < 640 THEN 16 ELSE 24
    IN  IF isSinglePlateMode(c.selectedSocketGroup, c.selectedPlate)
        THEN LET containerContentWidth == Whole(c.rect.width - pad * 2)
                 containerContentHeight == Whole(c.rect.height - pad * 2)
                 plateScaledWidth == RatMul(Cm(plate.width), scale)
                 plateScaledHeight == RatMul(Cm(plate.height), scale)
                 centeringOffsetX ==
                     RatDiv(RatSub(containerContentWidth, plateScaledWidth),
                            Whole(2))
                 centeringOffsetY ==
                     RatDiv(RatSub(containerContentHeight, plateScaledHeight),
                            Whole(2))
             IN  [x |-> RatAdd(Whole(pad), centeringOffsetX),
                  y |-> RatAdd(Whole(pad), centeringOffsetY)]
        ELSE LET before == RatAdd(widthsBefore(c.plates, 1, plate.id,
                                               c.plateScales, gap),
                                  Whole(pad))
             IN  [x |-> IF c.shouldCenterPlates
                        THEN RatAdd(before, c.centeringOffset) ELSE before,
                  y |-> Whole(0)]

(* An offset captured without the offset of the plate in the canvas.       *)
dragOffsetWithoutPlate(c, e, socketGroup, plate) ==
    LET scale == ScaleOf(c.plateScales, socketGroup.plateId)
        pos == getSocketGroupPosition(socketGroup, plate, c.plateScales)
        plateHeightPx == RatMul(Cm(plate.height), scale)
        posTopY == RatSub(plateHeightPx, pos.y)
    IN  [x |-> RatSub(Whole(e.x - c.rect.left), pos.x),
         y |-> RatSub(Whole(e.y - c.rect.top), posTopY)]

(* dragState.offset of handleSocketMouseDown for the pointer event e.      *)
dragOffsetAt(c, e, socketGroup, plate) ==
    LET scale == ScaleOf(c.plateScales, socketGroup.plateId)
        pos == getSocketGroupPosition(socketGroup, plate, c.plateScales)
        off == plateOffset(c, plate)
        plateHeightPx == RatMul(Cm(plate.height), scale)
        posTopY == RatSub(plateHeightPx, pos.y)
    IN  [x |-> RatSub(RatSub(Whole(e.x - c.rect.left), pos.x), off.x),
         y |-> RatSub(RatSub(Whole(e.y - c.rect.top), posTopY), off.y)]

(* plateX and plateY of handleSocketMouseMove for the pointer event e, cm. *)
dragAnchor(c, e, offset, socketGroup, plate) ==
    LET mouseX == RatSub(Whole(e.x - c.rect.left), offset.x)
        mouseY == RatSub(Whole(e.y - c.rect.top), offset.y)
        scale == ScaleOf(c.plateScales, socketGroup.plateId)
        off == plateOffset(c, plate)
        mousePlateX == RatDiv(RatSub(mouseX, off.x), scale)
        mousePlateY == RatSub(Cm(plate.height),
                              RatDiv(RatSub(mouseY, off.y), scale))
    IN  [x |-> RatAdd(mousePlateX, Cm(ANCHOR_OFFSET_CM)),
         y |-> RatSub(mousePlateY, Cm(ANCHOR_OFFSET_CM))]

---------------------------------------------------------------------------
(* Bounds of the model and the inputs the user events are drawn from.      *)

MaxPlates == 3

MaxGroups == 2

MaxIds == 3

(* The number of events of a behaviour.                                    *)
MaxSteps == 4

(* The number of events of a behaviour on a measured canvas: a drag in     *)
(* multi-plate mode takes five (socket toggle ON, OFF and ON again, the    *)
(* pointer goes down, the pointer moves).                                  *)
MaxCanvasSteps == 5

(* Widths and heights typed into a plate's inputs (100 and 5000 are out of *)
(* range and get clamped).                                                 *)
PlateWidthInputs == {100, 5000}

PlateHeightInputs == {350}

(* Count and direction picked in the form: one socket, or three in a row.  *)
SocketShapes == { <<1, "vertical">>, <<3, "horizontal">> }

(* Parsed texts of the position inputs: "" (NaN), "6.5", "17.5".           *)
(* The reset "3" of the handlers comes on top.                             *)
PositionXInputs == {NaN, 65, 175}

PositionYInputs == {65}

(* Anchors the pointer is dragged to.                                      *)
DragXInputs == {64, 65, 175}

DragYInputs == {65}

(* Date.now() of the first id the component creates.                       *)
FirstTick == Len(DEFAULT_PLATES) + 1

NoCall ==
    [called |-> FALSE, socketGroup |-> NoSocketGroup, positionX |-> 0,
     positionY |-> 0, plate |-> DEFAULT_PLATES[1], allSocketGroups |-> << >>]

NoResult == [valid |-> FALSE, error |-> "not called", values |-> << >>,
             positionX |-> 0,
             positionY |-> 0]

---------------------------------------------------------------------------
(* The component after its mount effect ran: on a localStorage that holds  *)
(* the plates savedPlates and nothing else, and on an empty one.           *)

AppLoaded(savedPlates) ==
    /\ plates = savedPlates
    /\ socketGroups = << >>
    /\ socketToggle = FALSE
    /\ selectedSocketGroup = NoSocketGroup
    /\ selectedPlate = ""
    /\ socketCount = 1
    /\ socketDirection = "vertical"
    /\ positionX = NaN
    /\ positionY = NaN
    /\ errorMessage = ""
    /\ dragState = NoDrag
    /\ isEditingSocket = TRUE
    /\ isRestoringSocketGroups = FALSE
    /\ lastSavedPlatesForEditMode = savedPlates
    /\ lsPlates = Item(savedPlates)
    /\ lsSocketGroups = NoItem
    /\ lsIsEditingSocket = TRUE
    /\ clock = FirstTick
    /\ steps = 0

AppInit == AppLoaded(DEFAULT_PLATES)

(* No drag has started.                                                    *)
NoOrigin == [x |-> Undefined, y |-> Undefined]

NoPointer == [x |-> Undefined, y |-> Undefined]

(* dragState.offset while no pointer is held down.                         *)
NoOffset == [x |-> Whole(0), y |-> Whole(0)]

(* The canvas before it was measured.                                      *)
CanvasUnmeasured ==
    /\ canvasDimensions = NoDimensions
    /\ plateScales = NoScales
    /\ canvasZoom = Whole(1)
    /\ centeringOffset = Whole(0)
    /\ shouldCenterPlates = FALSE
    /\ dragOffset = NoOffset

NoHistory ==
    /\ dragOrigin = NoOrigin
    /\ pointerDown = NoPointer
    /\ pointer = NoPointer
    /\ deleted = {}

Init ==
    /\ AppInit
    /\ vCall = NoCall
    /\ vResult = NoResult
    /\ CanvasUnmeasured
    /\ NoHistory

(* The behaviour may take another event.                                   *)
StepsLeft ==
    steps < (IF canvasDimensions = NoDimensions THEN MaxSteps
             ELSE MaxCanvasSteps)

(* The history of the drag after an event that leaves the state s: the     *)
(* stored position of the group at the moment the pointer took it.         *)
DragOriginAfter(s) ==
    IF s.dragState = NoDrag THEN NoOrigin
    ELSE IF dragState = NoDrag /\ HasId(socketGroups, s.dragState.socketGroupId)
         THEN LET g == socketGroups[IndexOfId(socketGroups,
                                              s.dragState.socketGroupId)]
              IN  [x |-> g.positionX, y |-> g.positionY]
    ELSE dragOrigin

(* The scaling effect after an event that leaves the state s.  Its result  *)
(* is a function of its dependencies, so running it after every event      *)
(* leaves what running it on their changes leaves.                         *)
ScalingNow ==
    [plateScales |-> plateScales, centeringOffset |-> centeringOffset,
     shouldCenterPlates |-> shouldCenterPlates]

ScalingCommitted(s) ==
    LET r == PlateScaling(canvasDimensions, s.plates, s.selectedSocketGroup,
                          s.selectedPlate, ScalingNow)
    IN  /\ plateScales' = r.plateScales
        /\ centeringOffset' = r.centeringOffset
        /\ shouldCenterPlates' = r.shouldCenterPlates

(* An event: the handler runs, React renders, the effects settle.  Ids are *)
(* issued, and events handled, up to the bounds.                           *)
Handled(n) ==
    LET s == AfterHandler(n)
    IN  /\ StepsLeft
        /\ s.clock <= FirstTick + MaxIds
        /\ Commit(s)
        /\ steps' = steps + 1
        /\ dragOrigin' = DragOriginAfter(s)
        /\ ScalingCommitted(s)
        /\ UNCHANGED <<valVars, canvasDimensions, canvasZoom>>

Event(n) ==
    /\ Handled(n)
    /\ UNCHANGED <<dragOffset, pointerDown, pointer, deleted>>

PlateOf(group) == plates[IndexOfId(plates, group.plateId)]

(* No pointer is held down: the controls of the page can be used.          *)
Idle == dragState = NoDrag

(* Section 2 shows the edit UI.                                            *)
EditUiShown == socketToggle /\ isEditingSocket

(* The list of configured socket groups is shown.                          *)
ListShown == socketToggle /\ Len(socketGroups) > 0

(* The plates the canvas shows.                                            *)
ShowsPlate(plateId) ==
    IF selectedSocketGroup # NoSocketGroup
    THEN plateId = selectedSocketGroup.plateId
    ELSE IF selectedPlate # "" THEN plateId = selectedPlate
    ELSE TRUE

ToggleSocket ==
    /\ Idle
    /\ Event([Cur EXCEPT !.socketToggle = ~@])

(* A dimension input is blurred: the handler is called with the value the  *)
(* input shows, for the width also when it was not edited.                 *)
UpdatePlateWidth ==
    /\ Idle
    /\ \E i \in 1..Len(plates) :
          \E w \in PlateWidthInputs \cup {plates[i].width} :
             Event(updatePlate(Cur, plates[i].id, w, Undefined))

UpdatePlateHeight ==
    /\ Idle
    /\ \E i \in 1..Len(plates) :
          \E h \in PlateHeightInputs :
             Event(updatePlate(Cur, plates[i].id, Undefined, h))

AddPlate ==
    /\ Idle
    /\ Len(plates) < MaxPlates
    /\ Event(addPlate(Cur))

DeletePlate ==
    /\ Idle
    /\ \E i \in 1..Len(plates) : Event(deletePlate(Cur, plates[i].id))

SelectPlate ==
    /\ Idle
    /\ EditUiShown
    /\ \E i \in 1..Len(plates) :
          /\ isPlateLargeEnoughForSockets(plates[i])
          /\ Event([Cur EXCEPT !.selectedPlate = plates[i].id])

(* The count, direction and position controls: setSocketCount,             *)
(* setSocketDirection, setPositionX, setPositionY.  They are shown once a  *)
(* plate is selected and only fill in the form.                            *)
Typed(s, c, d, x, y) ==
    [s EXCEPT !.socketCount = c, !.socketDirection = d,
              !.positionX = x, !.positionY = y]

(* "Steckdose bestaetigen", clicked as the form stands ...                 *)
ConfirmSocketGroup ==
    /\ Idle
    /\ EditUiShown
    /\ selectedSocketGroup # NoSocketGroup \/ Len(socketGroups) < MaxGroups
    /\ Event(handleConfirmSocketGroup(Cur))

(* ... or after the user has filled in the form.                           *)
TypeAndConfirmSocketGroup ==
    /\ Idle
    /\ EditUiShown
    /\ selectedPlate # ""
    /\ selectedSocketGroup # NoSocketGroup \/ Len(socketGroups) < MaxGroups
    /\ \E sh \in SocketShapes, x \in PositionXInputs, y \in PositionYInputs :
          Event(handleConfirmSocketGroup(Typed(Cur, sh[1], sh[2], x, y)))

AddSocketGroup ==
    /\ Idle
    /\ ListShown
    /\ Event(handleAddSocketGroup(Cur))

SocketGroupSelection ==
    /\ Idle
    /\ ListShown
    /\ \E i \in 1..Len(socketGroups) :
          /\ ~(selectedSocketGroup.id = socketGroups[i].id /\ isEditingSocket)
          /\ Event(handleSocketGroupSelection(Cur, socketGroups[i].id))

SocketGroupView ==
    /\ Idle
    /\ ListShown
    /\ ~isEditingSocket
    /\ \E i \in 1..Len(socketGroups) :
          Event(handleSocketGroupView(Cur, socketGroups[i].id))

DeleteSocketGroup ==
    /\ Idle
    /\ ListShown
    /\ isEditingSocket
    /\ \E i \in 1..Len(socketGroups) :
          /\ selectedSocketGroup.id = socketGroups[i].id
          /\ Handled(handleDeleteSocketGroup(Cur, socketGroups[i].id))
          /\ deleted' = deleted \cup {socketGroups[i].id}
          /\ UNCHANGED <<dragOffset, pointerDown, pointer>>

SocketMouseDown ==
    /\ Idle
    /\ \E i \in 1..Len(socketGroups) :
          /\ HasId(plates, socketGroups[i].plateId)
          /\ ShowsPlate(socketGroups[i].plateId)
          /\ Event(handleSocketMouseDown(Cur, socketGroups[i]))

SocketMouseMove ==
    /\ ~Idle
    /\ \E x \in DragXInputs, y \in DragYInputs :
          Event(handleSocketMouseMove(Cur, x, y))

SocketMouseUp ==
    /\ ~Idle
    /\ Event(handleSocketMouseUp(Cur))

(* setTimeout(() => setIsRestoringSocketGroups(false), 150).  The timer is *)
(* no event of the user: it is not counted in steps, and it is followed    *)
(* while events are left.                                                  *)
RestoreTimeout ==
    /\ isRestoringSocketGroups
    /\ StepsLeft
    /\ LET s == AfterHandler([Cur EXCEPT !.isRestoringSocketGroups = FALSE])
       IN  /\ Commit(s)
           /\ dragOrigin' = DragOriginAfter(s)
           /\ ScalingCommitted(s)
    /\ UNCHANGED <<steps, valVars, canvasDimensions, canvasZoom, dragOffset,
                   pointerDown, pointer, deleted>>

Next ==
    \/ ToggleSocket
    \/ UpdatePlateWidth
    \/ UpdatePlateHeight
    \/ AddPlate
    \/ DeletePlate
    \/ SelectPlate
    \/ ConfirmSocketGroup
    \/ TypeAndConfirmSocketGroup
    \/ AddSocketGroup
    \/ SocketGroupSelection
    \/ SocketGroupView
    \/ DeleteSocketGroup
    \/ SocketMouseDown
    \/ SocketMouseMove
    \/ SocketMouseUp
    \/ RestoreTimeout

Spec == Init /\ [][Next]_vars


---------------------------------------------------------------------------
(* The component on a measured canvas: the canvas is resized and zoomed,   *)
(* and the pointer that drags a group is given in px.                      *)

(* Plates found in localStorage: the defaults, and plates of 40 and 80 cm. *)
CanvasPlateLists ==
    { DEFAULT_PLATES,
      << [id |-> "1", width |-> 400, height |-> 400],
         [id |-> "2", width |-> 800, height |-> 400] >> }

(* Sizes of the canvas, px: a narrow strip, a phone, a desktop window and  *)
(* a desktop window that is very low.                                      *)
CanvasSizes ==
    { [width |-> 140, height |-> 600], [width |-> 360, height |-> 640],
      [width |-> 1200, height |-> 800], [width |-> 1000, height |-> 170] }

(* clientX/clientY where the pointer goes down, and where it moves to; a   *)
(* move may leave the pointer where it went down.                          *)
PointerDownInputs == { [x |-> 100, y |-> 100] }

PointerMoveInputs ==
    { [x |-> 100, y |-> 100], [x |-> 110, y |-> 90], [x |-> 164, y |-> 36] }

(* getBoundingClientRect() of the canvas, which fills the window.          *)
CanvasRect ==
    [left |-> 0, top |-> 0, width |-> canvasDimensions.width,
     height |-> canvasDimensions.height]

CanvasNow ==
    [rect |-> CanvasRect, plates |-> plates, plateScales |-> plateScales,
     selectedSocketGroup |-> selectedSocketGroup,
     selectedPlate |-> selectedPlate, centeringOffset |-> centeringOffset,
     shouldCenterPlates |-> shouldCenterPlates]

(* The page on a measured canvas, at the zoom factor zoom.                 *)
CanvasMeasured(zoom) ==
    /\ \E saved \in CanvasPlateLists : AppLoaded(saved)
    /\ vCall = NoCall
    /\ vResult = NoResult
    /\ canvasDimensions \in CanvasSizes
    /\ LET r == PlateScaling(canvasDimensions, plates, NoSocketGroup, "",
                             [plateScales |-> NoScales,
                              centeringOffset |-> Whole(0),
                              shouldCenterPlates |-> FALSE])
       IN  /\ plateScales = r.plateScales
           /\ centeringOffset = r.centeringOffset
           /\ shouldCenterPlates = r.shouldCenterPlates
    /\ canvasZoom = zoom
    /\ dragOffset = NoOffset
    /\ NoHistory

(* useState(1): the page starts unzoomed.                                  *)
CanvasInit == CanvasMeasured(Whole(1))

(* An event that leaves the state of the handlers alone.                   *)
CanvasEvent ==
    /\ StepsLeft
    /\ Commit(Cur)
    /\ steps' = steps + 1
    /\ UNCHANGED <<valVars, dragOffset, histVars>>

(* The resize listener measures the canvas; the scaling effect follows.    *)
CanvasResized ==
    /\ Idle
    /\ \E size \in CanvasSizes :
          /\ canvasDimensions' = size
          /\ LET r == PlateScaling(size, plates, selectedSocketGroup,
                                   selectedPlate, ScalingNow)
             IN  /\ plateScales' = r.plateScales
                 /\ centeringOffset' = r.centeringOffset
                 /\ shouldCenterPlates' = r.shouldCenterPlates
    /\ CanvasEvent
    /\ UNCHANGED canvasZoom

(* A zoom-in without the cap.                                              *)
handleZoomInUncapped ==
    /\ Idle
    /\ canvasZoom' = RatAdd(canvasZoom, Rat(2, 10))
    /\ CanvasEvent
    /\ UNCHANGED <<canvasDimensions, plateScales, centeringOffset,
                   shouldCenterPlates>>

handleZoomIn ==
    /\ Idle
    /\ canvasZoom' = RatMin(RatAdd(canvasZoom, Rat(2, 10)), Whole(5))
    /\ CanvasEvent
    /\ UNCHANGED <<canvasDimensions, plateScales, centeringOffset,
                   shouldCenterPlates>>

handleZoomOut ==
    /\ Idle
    /\ canvasZoom' = RatMax(RatSub(canvasZoom, Rat(2, 10)), Rat(5, 10))
    /\ CanvasEvent
    /\ UNCHANGED <<canvasDimensions, plateScales, centeringOffset,
                   shouldCenterPlates>>

handleZoomReset ==
    /\ Idle
    /\ canvasZoom' = Whole(1)
    /\ CanvasEvent
    /\ UNCHANGED <<canvasDimensions, plateScales, centeringOffset,
                   shouldCenterPlates>>

(* The pointer goes down on a group that is drawn.                         *)
CanvasPointerDown ==
    /\ Idle
    /\ \E i \in 1..Len(socketGroups), e \in PointerDownInputs :
          /\ HasId(plates, socketGroups[i].plateId)
          /\ ShowsPlate(socketGroups[i].plateId)
          /\ ScaleOf(plateScales, socketGroups[i].plateId) # Whole(0)
          /\ Handled(handleSocketMouseDown(Cur, socketGroups[i]))
          /\ dragOffset' = dragOffsetAt(CanvasNow, e, socketGroups[i],
                                        PlateOf(socketGroups[i]))
          /\ pointerDown' = e
          /\ pointer' = e
          /\ UNCHANGED deleted

(* The pointer moves to a place whose anchor is a whole number of mm.      *)
CanvasPointerMove ==
    /\ ~Idle
    /\ pointerDown # NoPointer
    /\ HasId(socketGroups, dragState.socketGroupId)
    /\ \E e \in PointerMoveInputs :
          LET socketGroup == socketGroups[IndexOfId(socketGroups,
                                                    dragState.socketGroupId)]
              anchor == dragAnchor(CanvasNow, e, dragOffset, socketGroup,
                                   PlateOf(socketGroup))
              plateX == RatMul(anchor.x, Whole(10))
              plateY == RatMul(anchor.y, Whole(10))
          IN  /\ HasId(plates, socketGroup.plateId)
              /\ IsWhole(plateX)
              /\ IsWhole(plateY)
              /\ Handled(handleSocketMouseMove(Cur, plateX.n, plateY.n))
              /\ pointer' = e
              /\ UNCHANGED <<dragOffset, pointerDown, deleted>>

CanvasPointerUp ==
    /\ ~Idle
    /\ pointerDown # NoPointer
    /\ Handled(handleSocketMouseUp(Cur))
    /\ dragOffset' = NoOffset
    /\ pointerDown' = NoPointer
    /\ pointer' = NoPointer
    /\ UNCHANGED deleted

(* A pointer move reaches handleSocketMouseMove while no drag session is   *)
(* active: the handler returns before it reads the event.                  *)
PointerMoveWhileIdle ==
    /\ Idle
    /\ LET s == AfterHandler(handleSocketMouseMove(Cur, Undefined, Undefined))
       IN  /\ Commit(s)
           /\ dragOrigin' = DragOriginAfter(s)
           /\ ScalingCommitted(s)
    /\ UNCHANGED <<steps, valVars, canvasDimensions, canvasZoom, dragOffset,
                   pointerDown, pointer, deleted>>

CanvasNext ==
    \/ ToggleSocket
    \/ AddPlate
    \/ DeletePlate
    \/ SelectPlate
    \/ RestoreTimeout
    \/ CanvasResized
    \/ handleZoomIn
    \/ handleZoomOut
    \/ handleZoomReset
    \/ CanvasPointerDown
    \/ CanvasPointerMove
    \/ CanvasPointerUp
    \/ PointerMoveWhileIdle

SpecCanvas == CanvasInit /\ [][CanvasNext]_vars

---------------------------------------------------------------------------
(* The zoom buttons alone, started at every factor that clicks on them     *)
(* lead to: 1 + 0.2 k up to the cap of 5, down to the floor of 0.5, and    *)
(* from the floor 0.5 + 0.2 k, which are the tenths from 0.5 to 5.         *)

ZoomLevels == { Rat(k, 10) : k \in 5..50 }

ZoomInit == \E zoom \in ZoomLevels : CanvasMeasured(zoom)

ZoomNext ==
    \/ handleZoomIn
    \/ handleZoomOut
    \/ handleZoomReset

SpecZoom == ZoomInit /\ [][ZoomNext]_vars


---------------------------------------------------------------------------
(* Properties of the component.                                            *)

(* The validator's answer for a stored group at its stored position.       *)
Revalidated(group) ==
    validateSocketPosition(group, group.positionX, group.positionY,
                           PlateOf(group), socketGroups)

(* C2: every socket group of the collection passes the validator at its    *)
(* stored position, against its plate and the other groups, in every       *)
(* reachable state.                                                        *)
C2_StoredGroupsValid ==
    \A i \in 1..Len(socketGroups) :
       HasId(plates, socketGroups[i].plateId)
          => Revalidated(socketGroups[i]).valid

(* The group the pointer holds, and the validator's answer for moving it   *)
(* to the anchor (x, y).                                                   *)
DraggedGroup ==
    socketGroups[IndexOfId(socketGroups, dragState.socketGroupId)]

DragReady ==
    /\ dragState # NoDrag
    /\ HasId(socketGroups, dragState.socketGroupId)
    /\ HasId(plates, DraggedGroup.plateId)

DragVerdict(x, y) ==
    validateSocketPosition(DraggedGroup, x, y, PlateOf(DraggedGroup),
                           socketGroups)

(* The step of a pointer move to the anchor (x, y).                        *)
PointerMovedTo(x, y) ==
    /\ ~Idle
    /\ Event(handleSocketMouseMove(Cur, x, y))

(* C3: a pointer move to a rejected candidate leaves every stored group    *)
(* as it was, sets a non-empty error message and still puts the candidate  *)
(* into liveDistanceX and liveDistanceY.                                   *)
C3_RejectedMoveKeepsPosition ==
    [][\A x \in DragXInputs, y \in DragYInputs :
          (DragReady /\ PointerMovedTo(x, y) /\ ~DragVerdict(x, y).valid)
             => /\ socketGroups' = socketGroups
                /\ errorMessage' # ""
                /\ dragState'.liveDistanceX = x
                /\ dragState'.liveDistanceY = y]_vars

(* A drag in which the last move was rejected for the clearance to another *)
(* group: the guideline values are the candidate's, the stored position is *)
(* not.                                                                    *)
C3_Witness ==
    /\ DragReady
    /\ errorMessage = ErrGroup
    /\ dragState.liveDistanceX # Undefined
    /\ dragState.liveDistanceX # DraggedGroup.positionX

(* C4: a pointer move to an accepted candidate stores exactly the          *)
(* candidate in the dragged group, clears the error message and changes    *)
(* nothing else of that group or of the other groups.                      *)
C4_AcceptedMoveCommits ==
    [][\A x \in DragXInputs, y \in DragYInputs :
          (DragReady /\ PointerMovedTo(x, y) /\ DragVerdict(x, y).valid)
             => /\ Len(socketGroups') = Len(socketGroups)
                /\ \A i \in 1..Len(socketGroups) :
                      IF socketGroups[i].id = dragState.socketGroupId
                      THEN /\ socketGroups'[i].positionX = x
                           /\ socketGroups'[i].positionY = y
                           /\ socketGroups'[i].id = socketGroups[i].id
                           /\ socketGroups'[i].plateId = socketGroups[i].plateId
                           /\ socketGroups'[i].count = socketGroups[i].count
                           /\ socketGroups'[i].direction
                                 = socketGroups[i].direction
                      ELSE socketGroups'[i] = socketGroups[i]
                /\ errorMessage' = ""]_vars

(* A drag with a second group on the plate, in which the last move was     *)
(* accepted: the stored position is the candidate.                         *)
C4_Witness ==
    /\ DragReady
    /\ Len(socketGroups) = 2
    /\ errorMessage = ""
    /\ dragState.liveDistanceX = 175
    /\ DraggedGroup.positionX = 175
    /\ dragState.liveDistanceY = DraggedGroup.positionY

(* The forms the confirm button can be clicked with.                       *)
ConfirmForms ==
    {Cur} \cup
    (IF selectedPlate = "" THEN {}
     ELSE { Typed(Cur, sh[1], sh[2], x, y) :
               sh \in SocketShapes,
               x \in PositionXInputs, y \in PositionYInputs })

(* The confirm of form f is one that must be refused.                      *)
ConfirmRefused(f) ==
    \/ f.selectedPlate = ""
    \/ ~HasId(f.plates, f.selectedPlate)
    \/ LET plate == f.plates[IndexOfId(f.plates, f.selectedPlate)]
           group == [id |-> IF f.selectedSocketGroup # NoSocketGroup
                            THEN f.selectedSocketGroup.id
                            ELSE ToString(f.clock),
                     plateId |-> f.selectedPlate,
                     count |-> f.socketCount,
                     direction |-> f.socketDirection,
                     positionX |-> f.positionX,
                     positionY |-> f.positionY]
       IN  \/ plate.width < 400
           \/ plate.height < 400
           \/ ~validateSocketPosition(group, f.positionX, f.positionY, plate,
                                      f.socketGroups).valid

(* C7: a confirm without a selected plate, with a selected plate that is   *)
(* missing or smaller than 40 x 40 cm, or with a position the validator    *)
(* rejects leaves the collection as it was and sets a non-empty error      *)
(* message.                                                                *)
C7_RefusedConfirmKeepsGroups ==
    [][\A f \in ConfirmForms :
          (/\ Idle
           /\ EditUiShown
           /\ ConfirmRefused(f)
           /\ Event(handleConfirmSocketGroup(f)))
             => /\ socketGroups' = socketGroups
                /\ errorMessage' # ""]_vars

(* A confirm refused for the clearance to a stored group.                  *)
C7_Witness ==
    /\ Idle
    /\ errorMessage = ErrGroup
    /\ Len(socketGroups) > 0

(* C8: after a step that updates a plate's width or height with the        *)
(* socket toggle ON, effects included, no group of that plate is in the    *)
(* collection.                                                             *)
C8_ResizeRemovesGroups ==
    [][\A i \in 1..Len(plates) :
          (/\ Idle
           /\ socketToggle
           /\ \/ \E w \in PlateWidthInputs :
                    Event(updatePlate(Cur, plates[i].id, w, Undefined))
              \/ \E h \in PlateHeightInputs :
                    Event(updatePlate(Cur, plates[i].id, Undefined, h)))
             => \A j \in 1..Len(socketGroups') :
                   socketGroups'[j].plateId # plates[i].id]_vars

(* C9: every group's plateId is the id of a plate of the collection that   *)
(* is at least 40 cm wide and 40 cm high, in every reachable state.        *)
C9_GroupsOnEligiblePlates ==
    \A i \in 1..Len(socketGroups) :
       /\ HasId(plates, socketGroups[i].plateId)
       /\ PlateOf(socketGroups[i]).width >= 400
       /\ PlateOf(socketGroups[i]).height >= 400

(* C10: the step that switches the socket toggle OFF, effects included,    *)
(* leaves an empty collection, no selected group, no selected plate and no *)
(* error message.                                                          *)
C10_ToggleOffClears ==
    [][(socketToggle /\ ~socketToggle')
          => /\ socketGroups' = << >>
             /\ selectedSocketGroup' = NoSocketGroup
             /\ selectedPlate' = ""
             /\ errorMessage' = ""]_vars

(* The plates of at least 40 x 40 cm, by their place in the list.          *)
EligiblePlaces ==
    { i \in 1..Len(plates) : plates[i].width >= 400 /\ plates[i].height >= 400 }

(* C11: the step that switches the socket toggle ON adds exactly one       *)
(* default group (one socket, vertical, at 3 cm / 3 cm), on the first      *)
(* plate of the list that is at least 40 x 40 cm, and adds no group when   *)
(* no plate is eligible.                                                   *)
C11_ToggleOnAddsDefault ==
    [][(~socketToggle /\ socketToggle')
          => IF EligiblePlaces = {}
             THEN socketGroups' = socketGroups
             ELSE /\ Len(socketGroups') = Len(socketGroups) + 1
                  /\ \A i \in 1..Len(socketGroups) :
                        socketGroups'[i] = socketGroups[i]
                  /\ LET new == socketGroups'[Len(socketGroups')]
                         first == CHOOSE i \in EligiblePlaces :
                                     \A j \in EligiblePlaces : i <= j
                     IN  /\ new.plateId = plates[first].id
                         /\ new.count = 1
                         /\ new.direction = "vertical"
                         /\ new.positionX = 30
                         /\ new.positionY = 30]_vars

(* The step of a pointer release.                                          *)
PointerReleased ==
    /\ ~Idle
    /\ Event(handleSocketMouseUp(Cur))

(* The pointer has moved during this drag: its last position is the        *)
(* anchor (liveDistanceX, liveDistanceY).                                  *)
PointerHasMoved ==
    /\ DragReady
    /\ dragState.liveDistanceX # Undefined

LastPositionValid ==
    DragVerdict(dragState.liveDistanceX, dragState.liveDistanceY).valid

(* The group the pointer held, after the step.                             *)
DraggedGroupAfter ==
    socketGroups'[IndexOfId(socketGroups', dragState.socketGroupId)]

(* C12: when the pointer is released after a last position that was        *)
(* invalid, the group is stored where it was when the drag started and an  *)
(* error message is shown; after a valid last position the group is stored *)
(* at that position.                                                       *)
C12_ReleaseSnapsBack ==
    [][(PointerHasMoved /\ PointerReleased)
          => /\ HasId(socketGroups', dragState.socketGroupId)
             /\ IF LastPositionValid
                THEN /\ DraggedGroupAfter.positionX = dragState.liveDistanceX
                     /\ DraggedGroupAfter.positionY = dragState.liveDistanceY
                ELSE /\ DraggedGroupAfter.positionX = dragOrigin.x
                     /\ DraggedGroupAfter.positionY = dragOrigin.y
                     /\ errorMessage' # ""]_vars

(* Numbers handed to clamp: below, at, inside and above the range of a     *)
(* plate's width and of its height.                                        *)
ClampProbes == {-50, 0, 199, 200, 201, 299, 300, 301, 1279, 1280, 1281,
                2999, 3000, 3001, 5000}

InRange(value, min, max) == min <= value /\ value <= max

(* C18: every plate is 20 to 300 cm wide and 30 to 128 cm high, whatever   *)
(* numbers updatePlate was called with; clamp returns a value of the range *)
(* and clamping a clamped value changes nothing.                           *)
C18_PlatesWithinBounds ==
    /\ \A i \in 1..Len(plates) :
          /\ InRange(plates[i].width, 200, 3000)
          /\ InRange(plates[i].height, 300, 1280)
    /\ \A v \in ClampProbes \cup PlateWidthInputs \cup PlateHeightInputs :
          /\ InRange(clamp(v, 200, 3000), 200, 3000)
          /\ InRange(clamp(v, 300, 1280), 300, 1280)
          /\ clamp(clamp(v, 200, 3000), 200, 3000) = clamp(v, 200, 3000)
          /\ clamp(clamp(v, 300, 1280), 300, 1280) = clamp(v, 300, 1280)

(* A width below the range and a width above it were typed: one plate is   *)
(* at the minimum, one at the maximum.                                     *)
C18_Witness ==
    /\ steps > 0
    /\ \E i \in 1..Len(plates) : plates[i].width = 200
    /\ \E i \in 1..Len(plates) : plates[i].width = 3000

(* The list seq without the entries for which Gone holds.                  *)
Remaining(seq, Gone(_)) == SelectSeq(seq, LAMBDA e : ~Gone(e))

(* The step is a click on the delete button of the plate plateId.          *)
DeletePlateClicked(plateId) ==
    /\ Idle
    /\ steps' = steps + 1
    /\ Event(deletePlate(Cur, plateId))

(* C19: the collection of plates is never empty; deleting the only plate   *)
(* changes neither the plates nor the socket groups, deleting one of       *)
(* several plates removes that plate and the socket groups on it and       *)
(* nothing else.                                                           *)
C19_DeletePlate ==
    [][/\ Len(plates') >= 1
       /\ \A i \in 1..Len(plates) :
             DeletePlateClicked(plates[i].id)
                 => IF Len(plates) = 1
                    THEN plates' = plates /\ socketGroups' = socketGroups
                    ELSE /\ plates' = Remaining(plates,
                                          LAMBDA p : p.id = plates[i].id)
                         /\ socketGroups'
                               = Remaining(socketGroups,
                                     LAMBDA g : g.plateId = plates[i].id)
      ]_vars

(* C25: a group removed by handleDeleteSocketGroup is never in the         *)
(* collection again, whatever happens later (a plate added or resized,     *)
(* the socket toggle switched OFF and ON), also when it was the last       *)
(* group.                                                                  *)
C25_DeletedGroupStaysDeleted ==
    \A id \in deleted : ~HasId(socketGroups, id)

(* C26: no group with a position that is not a number is ever stored: a   *)
(* confirm on an empty or unparseable position input (parseFloat gives     *)
(* NaN) is blocked and leaves the collection as it was.                    *)
C26_NoNaNPositionStored ==
    \A i \in 1..Len(socketGroups) :
        /\ IsNum(socketGroups[i].positionX)
        /\ IsNum(socketGroups[i].positionY)

(* C27: in every state the selection names members of the collections: a  *)
(* selected socket group is a group of the collection and a selected       *)
(* plate is a plate of the collection, also after deletePlate, updatePlate *)
(* and handleDeleteSocketGroup.                                            *)
C27_SelectionConsistent ==
    /\ selectedSocketGroup # NoSocketGroup
          => HasId(socketGroups, selectedSocketGroup.id)
    /\ selectedPlate # "" => HasId(plates, selectedPlate)

(* The groups of a list that are on the plate plateId, and the others.     *)
GroupsOn(groups, plateId) ==
    SelectSeq(groups, LAMBDA g : g.plateId = plateId)

GroupsOff(groups, plateId) ==
    SelectSeq(groups, LAMBDA g : g.plateId # plateId)

(* C28: a step that calls updatePlate with the width the plate already has *)
(* (the width input blurred without an edit) leaves the socket groups of   *)
(* that plate as they were, and a step that calls updatePlate with any     *)
(* value leaves the socket groups of the other plates as they were.        *)
C28_UnchangedSizeKeepsGroups ==
    [][\A i \in 1..Len(plates) :
          /\ (/\ Idle
              /\ Event(updatePlate(Cur, plates[i].id, plates[i].width,
                                   Undefined)))
                => GroupsOn(socketGroups', plates[i].id)
                       = GroupsOn(socketGroups, plates[i].id)
          /\ (/\ Idle
              /\ \/ \E w \in PlateWidthInputs \cup {plates[i].width} :
                       Event(updatePlate(Cur, plates[i].id, w, Undefined))
                 \/ \E h \in PlateHeightInputs :
                       Event(updatePlate(Cur, plates[i].id, Undefined, h)))
                => GroupsOff(socketGroups', plates[i].id)
                       = GroupsOff(socketGroups, plates[i].id)
      ]_vars

---------------------------------------------------------------------------
(* Properties of the canvas.                                               *)

(* A pointer that holds a group has moved: dragState carries the candidate *)
(* anchor of its last position.                                            *)
CandidateShown ==
    /\ dragState # NoDrag
    /\ pointerDown # NoPointer
    /\ dragState.liveDistanceX # Undefined
    /\ HasId(socketGroups, dragState.socketGroupId)

(* The displacement of the candidate anchor since the drag started, in cm. *)
AnchorMoved ==
    [x |-> Cm(dragState.liveDistanceX - dragOrigin.x),
     y |-> Cm(dragState.liveDistanceY - dragOrigin.y)]

(* The displacement of the pointer since the drag started, in px; the y    *)
(* axis of the screen points down, that of the plate up.                   *)
PointerMoved ==
    [x |-> Whole(pointer.x - pointerDown.x),
     y |-> Whole(pointerDown.y - pointer.y)]

RenderScale == ScaleOf(plateScales, DraggedGroup.plateId)

(* C13: a pointer displacement of d px since the drag started changes the  *)
(* candidate anchor by d / (scale * zoom) cm, at every zoom.               *)
C13_MapperAccountsForZoom ==
    CandidateShown
        => /\ RatMul(AnchorMoved.x, RatMul(RenderScale, canvasZoom))
                  = PointerMoved.x
           /\ RatMul(AnchorMoved.y, RatMul(RenderScale, canvasZoom))
                  = PointerMoved.y

(* The step of a pointer release on the canvas.                            *)
CanvasReleased ==
    /\ ~Idle
    /\ Handled(handleSocketMouseUp(Cur))

ZoomWithin(zoom) ==
    /\ ~RatLt(zoom, Rat(5, 10))
    /\ ~RatLt(Whole(5), zoom)

(* C30: after every zoom-in, zoom-out and zoom-reset the zoom factor is in *)
(* [0.5, 5]: a zoom-in adds 0.2 and stops at 5, a zoom-out subtracts 0.2   *)
(* and stops at 0.5, a reset gives exactly 1.                              *)
C30_ZoomWithinBounds ==
    [][/\ ZoomWithin(canvasZoom')
       /\ handleZoomIn
             => canvasZoom' = IF RatLt(Rat(48, 10), canvasZoom) THEN Whole(5)
                              ELSE RatAdd(canvasZoom, Rat(2, 10))
       /\ handleZoomOut
             => canvasZoom' = IF RatLt(canvasZoom, Rat(7, 10))
                              THEN Rat(5, 10)
                              ELSE RatSub(canvasZoom, Rat(2, 10))
       /\ handleZoomReset => canvasZoom' = Whole(1)
      ]_vars

(* A zoom-in has stopped at the cap.                                       *)
C30_Witness ==
    /\ canvasZoom = Whole(5)
    /\ steps > 0

(* The canvas is in single-plate mode.                                     *)
SingleMode == isSinglePlateMode(selectedSocketGroup, selectedPlate)

(* C24: with a render scale s above 0 and the layout of the canvas as it   *)
(* was when the pointer went down, a pointer that has moved by (dx, dy) px *)
(* shows the candidate (positionX + dx / s, positionY - dy / s) of the     *)
(* position the group had when it was taken, and a pointer that is where   *)
(* it went down shows that position itself, in single-plate mode and in    *)
(* multi-plate mode.                                                       *)
C24_MapperConsistentWithOffset ==
    (CandidateShown /\ RatLt(Whole(0), RenderScale))
        => /\ RatMul(AnchorMoved.x, RenderScale) = PointerMoved.x
           /\ RatMul(AnchorMoved.y, RenderScale) = PointerMoved.y
           /\ pointer = pointerDown
                 => /\ dragState.liveDistanceX = dragOrigin.x
                    /\ dragState.liveDistanceY = dragOrigin.y

(* In multi-plate mode a group of the second plate is held by a pointer    *)
(* that has moved on both axes.                                            *)
C24_Witness ==
    /\ CandidateShown
    /\ ~SingleMode
    /\ RatLt(Whole(0), RenderScale)
    /\ Len(plates) > 1
    /\ DraggedGroup.plateId = plates[2].id
    /\ pointer.x # pointerDown.x
    /\ pointer.y # pointerDown.y
    /\ dragState.liveDistanceX # dragOrigin.x
    /\ dragState.liveDistanceY # dragOrigin.y

PlateIds == {plates[i].id : i \in 1..Len(plates)}

(* The scaling effect ran on the plates of this state.                     *)
ScalesComputed ==
    /\ canvasDimensions.width # 0
    /\ DOMAIN plateScales = PlateIds

(* C14: a computed scale is at most 2 in single-plate mode and at most 1   *)
(* in multi-plate mode, and at least the minimum scale of the canvas.      *)
C14_ScaleWithinCapAndFloor ==
    canvasDimensions.width # 0
        => \A id \in DOMAIN plateScales :
              /\ ~RatLt(Whole(IF SingleMode THEN 2 ELSE 1), plateScales[id])
              /\ ~RatLt(plateScales[id], minScale(canvasDimensions))

(* A plate is drawn at the cap of the single-plate mode.                   *)
C14_Witness ==
    /\ SingleMode
    /\ \E id \in DOMAIN plateScales : plateScales[id] = Whole(2)

(* The width a plate is drawn with, in px.                                 *)
RenderedWidth(plate) == RatMul(Cm(plate.width), plateScales[plate.id])

(* C15: every plate of the collection has a scale and all scales are the   *)
(* same, so that the widths two plates are drawn with are in the ratio of  *)
(* their widths in cm.                                                     *)
C15_OneScaleForAllPlates ==
    canvasDimensions.width # 0
        => /\ DOMAIN plateScales = PlateIds
           /\ \A i, j \in 1..Len(plates) :
                 /\ plateScales[plates[i].id] = plateScales[plates[j].id]
                 /\ RatMul(RenderedWidth(plates[i]), Whole(plates[j].width))
                       = RatMul(RenderedWidth(plates[j]),
                                Whole(plates[i].width))

(* Plates of 40 and 80 cm are drawn 1 : 2, on a phone.                     *)
C15_Witness ==
    /\ ScalesComputed
    /\ steps > 0
    /\ isMobile(canvasDimensions)
    /\ \E i, j \in 1..Len(plates) :
          /\ plates[i].width = 400
          /\ plates[j].width = 800
          /\ RatMul(RenderedWidth(plates[i]), Whole(2))
                = RenderedWidth(plates[j])

(* The canvas of the size dimensions without its padding on both sides.    *)
Available(dimensions) ==
    [width |-> dimensions.width - 2 * padding(dimensions),
     height |-> dimensions.height - 2 * padding(dimensions)]

(* The plate the single-plate mode shows.                                  *)
FocusOf(group, plateId) ==
    IF group # NoSocketGroup THEN group.plateId ELSE plateId

(* The scale that fits a content of width x height (tenths of a cm) into   *)
(* the available canvas, limited by cap.                                   *)
FitScale(dimensions, width, height, cap) ==
    RatMin(RatMin(RatDiv(Whole(Available(dimensions).width), Cm(width)),
                  RatDiv(Whole(Available(dimensions).height), Cm(height))),
           Whole(cap))

(* The scale that fits the row of all plates.                              *)
FitOfAll(dimensions, ps) ==
    FitScale(dimensions, totalRealWidth(ps), maxPlateHeight(ps), 1)

(* The scale before the minimum scale is applied: the fit of the focused   *)
(* plate in single-plate mode, of all plates in multi-plate mode.          *)
ScaleBeforeFloor(dimensions, ps, group, plateId) ==
    IF isSinglePlateMode(group, plateId)
    THEN LET plate == ps[IndexOfId(ps, FocusOf(group, plateId))]
         IN  FitScale(dimensions, plate.width, plate.height, 2)
    ELSE FitOfAll(dimensions, ps)

FocusId == FocusOf(selectedSocketGroup, selectedPlate)

FloorHitIn(dimensions, ps, group, plateId, scales) ==
    /\ dimensions.width # 0
    /\ DOMAIN scales = {ps[i].id : i \in 1..Len(ps)}
    /\ isSinglePlateMode(group, plateId)
           => HasId(ps, FocusOf(group, plateId))
    /\ RatLt(ScaleBeforeFloor(dimensions, ps, group, plateId),
             scales[ps[1].id])

FloorHit ==
    FloorHitIn(canvasDimensions, plates, selectedSocketGroup, selectedPlate,
               plateScales)

(* A step between two states in which the minimum scale is applied.        *)
FloorHitTwice ==
    /\ FloorHit
    /\ FloorHitIn(canvasDimensions', plates', selectedSocketGroup',
                  selectedPlate', plateScales')

(* The scale all plates are drawn with, before and after a step.           *)
AppliedScale == plateScales[plates[1].id]

AppliedScaleAfter == plateScales'[plates'[1].id]

(* C17 as stated: a canvas held at the minimum scale that is resized from  *)
(* narrow to wide gets a larger scale, and one resized from wide to narrow *)
(* a smaller scale.                                                        *)
C17_FloorSmallerOnNarrow ==
    [][FloorHitTwice
          => /\ (isMobile(canvasDimensions) /\ ~isMobile(canvasDimensions'))
                    => RatLt(AppliedScale, AppliedScaleAfter)
             /\ (~isMobile(canvasDimensions) /\ isMobile(canvasDimensions'))
                    => RatLt(AppliedScaleAfter, AppliedScale)]_vars

(* C17, amended: the minimum scale is larger on a narrow canvas (0.3) than *)
(* on a wide one (0.2); a canvas held at the minimum scale that is resized *)
(* from narrow to wide gets a smaller scale, and from wide to narrow a     *)
(* larger one.                                                             *)
C17_FloorLargerOnNarrow ==
    [][FloorHitTwice
          => /\ (isMobile(canvasDimensions) /\ ~isMobile(canvasDimensions'))
                    => /\ AppliedScale = Rat(3, 10)
                       /\ AppliedScaleAfter = Rat(2, 10)
             /\ (~isMobile(canvasDimensions) /\ isMobile(canvasDimensions'))
                    => /\ AppliedScale = Rat(2, 10)
                       /\ AppliedScaleAfter = Rat(3, 10)]_vars

(* A wide canvas at the minimum scale, after a resize.                     *)
C17_Witness ==
    /\ FloorHit
    /\ ~isMobile(canvasDimensions)
    /\ steps > 0
    /\ AppliedScale = Rat(2, 10)

---------------------------------------------------------------------------
(* The validator on its own: a call with arguments drawn from bounded      *)
(* sets, then changes of the sibling list that the validator must ignore.  *)

MaxSiblings == 2

ValPlates ==
    { [id |-> "1", width |-> 500, height |-> 500],
      [id |-> "2", width |-> 1000, height |-> 600] }

(* Candidate anchors: around the left/bottom edge (64, 65), the right     *)
(* edge of the 50 cm plate for five sockets in a row (147, 148), its top   *)
(* edge for one socket (435, 436), beyond its right edge for any count     *)
(* (436), and at 3.9/4.0 cm from a sibling at (65, 65): beside it          *)
(* (174, 175) and diagonally (159 with 166, 167).                          *)
ValXInputs == {NaN, 64, 65, 135, 147, 148, 159, 174, 175, 436}

ValYInputs == {64, 65, 166, 167, 435, 436}

ValCounts == 1..5

(* Siblings anchored at (65, 65): another group on either plate, one       *)
(* socket or three in a row, and an entry with the id of the validated     *)
(* group ("g").                                                            *)
ValSiblings ==
    { [id |-> sh[1], plateId |-> sh[2], count |-> sh[3], direction |-> sh[4],
       positionX |-> 65, positionY |-> 65] :
      sh \in { <<"s", "1", 1, "vertical">>, <<"s", "1", 3, "horizontal">>,
               <<"s", "2", 1, "vertical">>, <<"g", "1", 3, "horizontal">> } }

(* Lists of distinct siblings.                                             *)
ValSiblingLists ==
    { l \in UNION { [1..n -> ValSiblings] : n \in 0..MaxSiblings } :
        \A i, j \in 1..Len(l) : i # j => l[i] # l[j] }

ValCalls ==
    { [called |-> TRUE,
       socketGroup |-> [id |-> "g", plateId |-> pl.id, count |-> c,
                        direction |-> d, positionX |-> 65, positionY |-> 65],
       positionX |-> x, positionY |-> y, plate |-> pl,
       allSocketGroups |-> l] :
      pl \in ValPlates, c \in ValCounts, d \in Directions,
      x \in ValXInputs, y \in ValYInputs, l \in ValSiblingLists }

Validated(call) ==
    validateSocketPosition(call.socketGroup, call.positionX, call.positionY,
                           call.plate, call.allSocketGroups)

(* A group the clearance check has no business with: the validated group   *)
(* itself, or a group of another plate.                                    *)
IsForeign(call, other) ==
    other.id = call.socketGroup.id \/ other.plateId # call.socketGroup.plateId

ValInit ==
    /\ AppInit
    /\ vCall \in ValCalls
    /\ vResult = NoResult
    /\ CanvasUnmeasured
    /\ NoHistory

Validate ==
    /\ vResult = NoResult
    /\ vResult' = Validated(vCall)
    /\ UNCHANGED <<vCall, appVars, canvasVars, histVars>>

Revalidate(list) ==
    /\ vResult # NoResult
    /\ vCall' = [vCall EXCEPT !.allSocketGroups = list]
    /\ vResult' = Validated(vCall')
    /\ UNCHANGED <<appVars, canvasVars, histVars>>

ForeignAdded ==
    /\ Len(vCall.allSocketGroups) < MaxSiblings
    /\ \E other \in ValSiblings :
          /\ IsForeign(vCall, other)
          /\ \A i \in 1..Len(vCall.allSocketGroups) :
                vCall.allSocketGroups[i] # other
          /\ Revalidate(Append(vCall.allSocketGroups, other))

ForeignRemoved ==
    \E i \in 1..Len(vCall.allSocketGroups) :
       /\ IsForeign(vCall, vCall.allSocketGroups[i])
       /\ Revalidate([j \in 1..(Len(vCall.allSocketGroups) - 1) |->
                        IF j < i THEN vCall.allSocketGroups[j]
                        ELSE vCall.allSocketGroups[j + 1]])

ForeignMoved ==
    \E i \in 1..Len(vCall.allSocketGroups), x \in {65, 175} :
       /\ IsForeign(vCall, vCall.allSocketGroups[i])
       /\ vCall.allSocketGroups[i].positionX # x
       /\ Revalidate([vCall.allSocketGroups EXCEPT ![i].positionX = x])

ValNext ==
    \/ Validate
    \/ ForeignAdded
    \/ ForeignRemoved
    \/ ForeignMoved

SpecValidate == ValInit /\ [][ValNext]_vars

---------------------------------------------------------------------------
(* Properties of the validator.                                            *)

(* The box of a group anchored at (x, y): the anchor is 3.5 cm inside the  *)
(* first socket.                                                           *)
BoxOf(g, x, y) ==
    LET dims == calculateSocketGroupDimensions(g.count, g.direction)
    IN  [left |-> x - 35, bottom |-> y - 35,
         right |-> x - 35 + dims.width, top |-> y - 35 + dims.height]

Max3(a, b, c) ==
    IF a >= b /\ a >= c THEN a ELSE IF b >= c THEN b ELSE c

(* The square of the distance between two boxes (0 when they overlap).     *)
BoxDistanceSq(a, b) ==
    LET gx == Max3(0, b.left - a.right, a.left - b.right)
        gy == Max3(0, b.bottom - a.top, a.bottom - b.top)
    IN  gx * gx + gy * gy

(* The siblings of a call that are closer than 4 cm to its candidate box.  *)
CloseSiblings(call) ==
    { i \in 1..Len(call.allSocketGroups) :
        LET other == call.allSocketGroups[i]
        IN  /\ other.plateId = call.socketGroup.plateId
            /\ other.id # call.socketGroup.id
            /\ BoxDistanceSq(BoxOf(call.socketGroup, call.positionX,
                                   call.positionY),
                             BoxOf(other, other.positionX, other.positionY))
                 < 40 * 40 }

LeftFails(call) == call.positionX - 35 < 30

BottomFails(call) == call.positionY - 35 < 30

RightFails(call) ==
    BoxOf(call.socketGroup, call.positionX, call.positionY).right
        > call.plate.width - 30

TopFails(call) ==
    BoxOf(call.socketGroup, call.positionX, call.positionY).top
        > call.plate.height - 30

NumericCall ==
    /\ vResult # NoResult
    /\ IsNum(vCall.positionX)
    /\ IsNum(vCall.positionY)

(* C1: for a numeric candidate the validator answers valid exactly when    *)
(* the candidate box keeps 3 cm to the four plate edges and every other    *)
(* group of the same plate is at a box distance of 4 cm or more; a box     *)
(* edge at exactly 3 cm and a distance of exactly 4 cm are accepted.       *)
C1_ValidIffConstraints ==
    NumericCall =>
        (vResult.valid <=>
            /\ ~LeftFails(vCall)
            /\ ~BottomFails(vCall)
            /\ ~RightFails(vCall)
            /\ ~TopFails(vCall)
            /\ CloseSiblings(vCall) = {})

(* An accepted candidate whose box bottom is at exactly 3 cm and whose     *)
(* distance to a sibling of its plate is exactly 4 cm.                     *)
C1_Witness ==
    /\ NumericCall
    /\ vResult.valid
    /\ vCall.positionY - 35 = 30
    /\ \E i \in 1..Len(vCall.allSocketGroups) :
          LET other == vCall.allSocketGroups[i]
          IN  /\ ~IsForeign(vCall, other)
              /\ BoxDistanceSq(BoxOf(vCall.socketGroup, vCall.positionX,
                                     vCall.positionY),
                               BoxOf(other, other.positionX, other.positionY))
                   = 40 * 40

(* The entries of the sibling list that are neither the validated group    *)
(* nor groups of another plate.                                            *)
RealSiblings(call) ==
    LET IsReal(other) == ~IsForeign(call, other)
    IN  SelectSeq(call.allSocketGroups, IsReal)

(* C5: a change of the sibling list that only adds, removes or moves       *)
(* groups of another plate or entries with the validated group's own id    *)
(* never changes the validator's answer.                                   *)
C5_ForeignGroupsIgnored ==
    [][(/\ vResult # NoResult
        /\ vCall'.socketGroup = vCall.socketGroup
        /\ vCall'.positionX = vCall.positionX
        /\ vCall'.positionY = vCall.positionY
        /\ vCall'.plate = vCall.plate
        /\ RealSiblings(vCall') = RealSiblings(vCall))
       => vResult' = vResult]_vars

(* An accepted candidate whose box overlaps a group of another plate and   *)
(* an entry with its own id that are both in the sibling list.             *)
C5_Witness ==
    /\ vResult # NoResult
    /\ vResult.valid
    /\ \E i, j \in 1..Len(vCall.allSocketGroups) :
          LET a == vCall.allSocketGroups[i]
              b == vCall.allSocketGroups[j]
          IN  /\ a.plateId # vCall.socketGroup.plateId
              /\ b.id = vCall.socketGroup.id /\ b.plateId = vCall.socketGroup.plateId
              /\ totalDistanceSq(vCall.socketGroup, vCall.positionX,
                                 vCall.positionY, a) = 0
              /\ totalDistanceSq(vCall.socketGroup, vCall.positionX,
                                 vCall.positionY, b) = 0

(* C6: the error is that of the first failing check in the order left,     *)
(* bottom, right, top, group clearance; the clearance error appears only   *)
(* when the four edge checks pass.                                         *)
C6_FirstFailingCheckWins ==
    NumericCall =>
        /\ LeftFails(vCall) => vResult.error = ErrLeft
        /\ (~LeftFails(vCall) /\ BottomFails(vCall))
              => vResult.error = ErrBottom
        /\ (~LeftFails(vCall) /\ ~BottomFails(vCall) /\ RightFails(vCall))
              => vResult.error = ErrRight
        /\ (~LeftFails(vCall) /\ ~BottomFails(vCall) /\ ~RightFails(vCall)
               /\ TopFails(vCall))
              => vResult.error = ErrTop
        /\ vResult.error = ErrGroup
              <=> (/\ ~LeftFails(vCall) /\ ~BottomFails(vCall)
                   /\ ~RightFails(vCall) /\ ~TopFails(vCall)
                   /\ CloseSiblings(vCall) # {})

(* A candidate that violates the left edge, the top edge and the           *)
(* clearance to a sibling at once, reported as a left-edge error.          *)
C6_Witness ==
    /\ NumericCall
    /\ LeftFails(vCall)
    /\ TopFails(vCall)
    /\ CloseSiblings(vCall) # {}
    /\ vResult.error = ErrLeft


(* The size calculateSocketGroupDimensions gives for the validated group.  *)
CallDimensions ==
    calculateSocketGroupDimensions(vCall.socketGroup.count,
                                   vCall.socketGroup.direction)

(* C20: a group of count sockets measures count * 7 + (count - 1) * 0.2 cm *)
(* along its direction and 7 cm across it; three sockets in a row measure  *)
(* 21.4 x 7 cm.                                                            *)
C20_GroupDimensions ==
    vResult # NoResult
        => LET count == vCall.socketGroup.count
               horizontal == vCall.socketGroup.direction = "horizontal"
               along == IF horizontal THEN CallDimensions.width
                        ELSE CallDimensions.height
               across == IF horizontal THEN CallDimensions.height
                         ELSE CallDimensions.width
           IN  /\ count \in 1..5
               /\ along = count * 70 + (count - 1) * 2
               /\ across = 70
               /\ (count = 3 /\ horizontal)
                     => CallDimensions = [width |-> 214, height |-> 70]

(* Three sockets in a row were measured.                                   *)
C20_Witness ==
    /\ vResult # NoResult
    /\ vCall.socketGroup.count = 3
    /\ vCall.socketGroup.direction = "horizontal"
    /\ CallDimensions.width = 214
    /\ CallDimensions.height = 70

(* The validated group as it would be stored at the candidate position.    *)
CandidateGroup(call) ==
    [call.socketGroup EXCEPT !.positionX = call.positionX,
                             !.positionY = call.positionY]

(* The siblings the loop of a call measures.                               *)
MeasuredSiblings(call) ==
    { other \in { call.allSocketGroups[i] :
                     i \in 1..Len(call.allSocketGroups) } :
        ~IsForeign(call, other) }

(* C21: the distance measured when the candidate is validated against a    *)
(* sibling of its plate equals the distance measured when that sibling,    *)
(* at its stored position, is validated against the candidate, so the      *)
(* clearance check rejects either both or none.                            *)
C21_DistanceSymmetric ==
    vResult # NoResult =>
        \A other \in MeasuredSiblings(vCall) :
            /\ totalDistanceSq(vCall.socketGroup, vCall.positionX,
                               vCall.positionY, other)
                 = totalDistanceSq(other, other.positionX, other.positionY,
                                   CandidateGroup(vCall))
            /\ TooClose(vCall.socketGroup, vCall.positionX, vCall.positionY,
                        other)
                 <=> TooClose(other, other.positionX, other.positionY,
                              CandidateGroup(vCall))

(* A candidate to the right of a sibling of its plate, with a gap between  *)
(* the two boxes, was validated.                                           *)
C21_Witness ==
    /\ NumericCall
    /\ \E other \in MeasuredSiblings(vCall) :
          /\ BoxOf(other, other.positionX, other.positionY).right
               < BoxOf(vCall.socketGroup, vCall.positionX,
                       vCall.positionY).left
          /\ totalDistanceSq(vCall.socketGroup, vCall.positionX,
                             vCall.positionY, other) > 0
          /\ totalDistanceSq(other, other.positionX, other.positionY,
                             CandidateGroup(vCall)) > 0

(* The projections of two boxes on the x axis and on the y axis overlap    *)
(* or touch.                                                               *)
XOverlap(a, b) == a.left <= b.right /\ b.left <= a.right

YOverlap(a, b) == a.bottom <= b.top /\ b.bottom <= a.top

(* The gap between the nearer edges of two boxes on each axis, 0 when the  *)
(* projections overlap or touch.                                           *)
hGap(a, b) ==
    IF XOverlap(a, b) THEN 0
    ELSE IF a.right < b.left THEN b.left - a.right ELSE a.left - b.right

vGap(a, b) ==
    IF YOverlap(a, b) THEN 0
    ELSE IF a.top < b.bottom THEN b.bottom - a.top ELSE a.bottom - b.top

CandidateBox == BoxOf(vCall.socketGroup, vCall.positionX, vCall.positionY)

StoredBox(other) == BoxOf(other, other.positionX, other.positionY)

MeasuredSq(other) ==
    totalDistanceSq(vCall.socketGroup, vCall.positionX, vCall.positionY,
                    other)

(* C22: the distance between the candidate box and the box of a sibling    *)
(* is never negative, is 0 exactly when the x projections and the y        *)
(* projections both overlap or touch, and is otherwise the root of         *)
(* hGap^2 + vGap^2 of the gaps between the nearer edges (stated on the     *)
(* squares).                                                               *)
C22_RectangleDistance ==
    NumericCall =>
        \A other \in MeasuredSiblings(vCall) :
            /\ MeasuredSq(other) >= 0
            /\ MeasuredSq(other) = 0
                 <=> (XOverlap(CandidateBox, StoredBox(other))
                        /\ YOverlap(CandidateBox, StoredBox(other)))
            /\ MeasuredSq(other)
                 = hGap(CandidateBox, StoredBox(other))
                     * hGap(CandidateBox, StoredBox(other))
                   + vGap(CandidateBox, StoredBox(other))
                       * vGap(CandidateBox, StoredBox(other))

(* A candidate diagonally apart from a sibling of its plate, with a gap on *)
(* both axes, was measured.                                                *)
C22_Witness ==
    /\ NumericCall
    /\ \E other \in MeasuredSiblings(vCall) :
          /\ hGap(CandidateBox, StoredBox(other)) > 0
          /\ vGap(CandidateBox, StoredBox(other)) > 0
          /\ MeasuredSq(other) > 0

(* The parts of the diagnostic of the last answer.                         *)
DiagnosticParts == { vResult.values[i] : i \in 1..Len(vResult.values) }

(* The sibling that made the loop return: the first one closer than 4 cm.  *)
Offender ==
    vCall.allSocketGroups[FirstTooClose(vCall.socketGroup, vCall.positionX,
                                        vCall.positionY,
                                        vCall.allSocketGroups, 1)]

ClearanceFailure == vResult # NoResult /\ vResult.error = ErrGroup

(* The diagnostic of a clearance failure shows the distance to the         *)
(* offending sibling, to one decimal.                                      *)
DiagnosticShowsDistance ==
    ClearanceFailure
        => \E k \in 0..MIN_GROUP_DISTANCE :
              /\ k = 0 \/ (2 * k - 1) * (2 * k - 1) <= 4 * MeasuredSq(Offender)
              /\ 4 * MeasuredSq(Offender) < (2 * k + 1) * (2 * k + 1)
              /\ toFixed(k) \in DiagnosticParts

(* C23: every clearance failure the validator returns carries a            *)
(* diagnostic that includes the computed distance and the identifiers of   *)
(* the plate, of the validated group and of the offending sibling.         *)
C23_DiagnosticNamesPlateAndGroups ==
    ClearanceFailure
        => /\ DiagnosticShowsDistance
           /\ vCall.plate.id \in DiagnosticParts
           /\ vCall.socketGroup.id \in DiagnosticParts
           /\ Offender.id \in DiagnosticParts

============================================================================
